---- MODULE Spec2Model ----
(***************************************************************************)
(* Model of the calculation core of sistema_tribunal: the reference-table  *)
(* lookups and accumulators of modulos/calculadora_lrt.py,                 *)
(* modulos/actualizacion.py, modulos/calculadora_despidos.py,              *)
(* modulos/honorarios.py, modulos/ibm.py and utils/funciones_comunes.py.   *)
(*                                                                         *)
(* Dates are day ordinals of the year 2024 (1 = 2024-01-01).  Python       *)
(* floats are modelled by exact rational arithmetic: a quantity q is kept  *)
(* as an integer numerator over a fixed denominator stated at its          *)
(* definition.                                                             *)
(***************************************************************************)
EXTENDS Integers, Sequences, FiniteSets, TLC

VARIABLES
    tasa_data,   \* DataManager.tasa_data  (calculadora_lrt.py, after _norm_tasa)
    df_tasa,     \* df_tasa of actualizacion.py / calculadora_despidos.py
    ripte_data,  \* DataManager.ripte_data (calculadora_lrt.py, after _norm_ripte)
    df_ripte,    \* df_ripte of actualizacion.py / calculadora_despidos.py / ibm.py
    ipc_data,    \* DataManager.ipc_data (calculadora_lrt.py, after _norm_ipc)
    df_ipc,      \* df_ipc of actualizacion.py / calculadora_despidos.py
    pisos_data,  \* DataManager.pisos_data (calculadora_lrt.py, after _norm_pisos)
    df_jus,      \* df_jus of honorarios.py
    res,         \* the last operation run and what it returned
    sys_modules, \* sys.modules: the names of the application modules loaded in the process
    cwd,         \* the working directory of the process
    sesion,      \* per user session: st.session_state.app_actual and the position of its script run
    monto_juicio, \* honorarios.py: the case amount of the regulation tab, in cents
    abog_data,   \* st.session_state.abog_data: the lawyers, [pesos, iva] each
    aux_data     \* st.session_state.aux_data: the pesos of each auxiliary

tablas == <<tasa_data, df_tasa, ripte_data, df_ripte, ipc_data, df_ipc, pisos_data, df_jus>>
proceso == <<sys_modules, cwd, sesion>>
regulacion == <<monto_juicio, abog_data, aux_data>>
vars == <<tasa_data, df_tasa, ripte_data, df_ripte, ipc_data, df_ipc, pisos_data, df_jus, res,
          sys_modules, cwd, sesion, monto_juicio, abog_data, aux_data>>

-----------------------------------------------------------------------------
(* Bounds *)

MaxRows == 2
MaxRipteRows == 3
MaxPisosRows == 2
MaxJusRows == 2
MaxIpcRows == 2
MaxSesiones == 2

-----------------------------------------------------------------------------
(* Calendar of 2024 and missing values *)

\* pandas NaN of a numeric cell (every date and table value of the model is >= 0)
NaN == -1
\* pandas NaT / None of a date cell
NaT == NaN
\* Python None returned by a lookup that found no row
None == -2

\* pd.isna(x)
isna(x) == x \in {NaN, NaT, None}

MonthLen == <<31, 29, 31, 30, 31, 30, 31, 31, 30, 31, 30, 31>>

RECURSIVE MonthStart(_)
\* ordinal of day 1 of month m
MonthStart(m) == IF m = 1 THEN 1 ELSE MonthStart(m - 1) + MonthLen[m - 1]

\* the month of each day of the year
MesDelDia == [d \in 1..366 |-> CHOOSE m \in 1..12 : MonthStart(m) <= d /\ d < MonthStart(m) + MonthLen[m]]

\* d.month
month_of(d) == MesDelDia[d]

\* d.day
day_of(d) == d - MonthStart(month_of(d)) + 1

\* days_in_month taking every month as the commercial month of 30 days
days_in_month_comercial(d) == 30

\* days_in_month(d)
days_in_month(d) == MonthLen[month_of(d)]

\* d.replace(day=1)
replace_day1(d) == MonthStart(month_of(d))

\* date(d.year, d.month, days_in_month(d))
month_end(d) == MonthStart(month_of(d)) + days_in_month(d) - 1

Max(a, b) == IF a >= b THEN a ELSE b
Min(a, b) == IF a <= b THEN a ELSE b

RECURSIVE Mcd(_, _)
\* greatest common divisor of a >= 0 and b >= 0
Mcd(a, b) == IF b = 0 THEN a ELSE Mcd(b, a % b)

Abs(a) == IF a < 0 THEN -a ELSE a

\* the fraction n / d (d > 0) in lowest terms: the value of a float result
Frac(n, d) == LET g == Mcd(Abs(n), d) IN <<n \div g, d \div g>>

\* all sequences over S of length 0..n
SeqsUpTo(S, n) == UNION {[1..k -> S] : k \in 0..n}

-----------------------------------------------------------------------------
(* The process: user sessions of app.py                                    *)
(* Each session runs the script app.py in its own thread of one process;   *)
(* sys.modules and the working directory belong to the process.            *)

Sesiones == 1..MaxSesiones

\* APLICACIONES[...]["modulo"]
Modulos == {"modulos.calculadora_lrt", "modulos.ibm"}

BASE_DIR == "BASE_DIR"

\* a session at the menu, st.session_state.app_actual = None
EnMenu == [pc |-> "menu", app_actual |-> "None", visto |-> FALSE, resultado |-> "pendiente"]

\* no session is running: the state of the process for the calculations of one session
SinSesiones ==
    /\ sys_modules = {}
    /\ cwd = BASE_DIR
    /\ sesion = [s \in Sesiones |-> EnMenu]

\* the case amounts entered in the regulation tab of honorarios.py, in cents
HonMontos == {1000, 2000}

\* abog_data and aux_data as the first run of the tab creates them
AbogInicial == <<[pesos |-> 0, iva |-> FALSE]>>
AuxInicial  == <<0>>

\* the regulation tab before any allocation
SinRegulacion ==
    /\ monto_juicio = 2000
    /\ abog_data = AbogInicial
    /\ aux_data = AuxInicial

-----------------------------------------------------------------------------
(* Tasa Activa: interval-rate table                                        *)
(* A row is [desde, hasta, valor]; valor is the monthly rate in percent.   *)
(* An accumulated percentage p is kept as p30 = 30 * p.                    *)

TasaDesde == {1, 20}
TasaHasta == {NaT, 10, 40}
TasaValor == {NaN, 3, 5}
TasaRows  == [desde : TasaDesde, hasta : TasaHasta, valor : TasaValor]
QueryDates == {1, 15, 45}
\* capital_base / monto_base, in cents
Capitales == {100000, 123457}

\* DataManager._norm_tasa: drop the rows without fecha (= desde) or tasa
norm_tasa(csv) == SelectSeq(csv, LAMBDA r : ~isna(r.desde) /\ ~isna(r.valor))

\* one iteration of the loop of DataManager.calcular_tasa_activa
lrt_hasta(row) == IF ~isna(row.hasta) THEN row.hasta ELSE month_end(row.desde)

\* the same iteration counting (fin - inicio) days, without the + 1
lrt_aporte30_sin_dia_final(row, fecha_pmi, fecha_final) ==
    LET inicio_interseccion == Max(fecha_pmi, row.desde)
        fin_interseccion    == Min(fecha_final, lrt_hasta(row))
    IN  IF inicio_interseccion <= fin_interseccion
        THEN IF ~isna(row.valor)
             THEN row.valor * (fin_interseccion - inicio_interseccion)
             ELSE 0
        ELSE 0

lrt_aporte30(row, fecha_pmi, fecha_final) ==
    LET inicio_interseccion == Max(fecha_pmi, row.desde)
        fin_interseccion    == Min(fecha_final, lrt_hasta(row))
    IN  IF inicio_interseccion <= fin_interseccion
        THEN IF ~isna(row.valor)
             THEN row.valor * ((fin_interseccion - inicio_interseccion) + 1)
             ELSE 0
        ELSE 0

RECURSIVE calcular_tasa_activa(_, _, _)
\* DataManager.calcular_tasa_activa: 30 * total_aporte_pct
calcular_tasa_activa(tabla, fecha_pmi, fecha_final) ==
    IF tabla = <<>> THEN 0
    ELSE lrt_aporte30(Head(tabla), fecha_pmi, fecha_final)
         + calcular_tasa_activa(Tail(tabla), fecha_pmi, fecha_final)

\* one iteration of the loop of actualizar_tasa (actualizacion.py)
act_aporte30(row, fecha_pmi, fecha_final) ==
    IF isna(row.desde) \/ isna(row.hasta) THEN 0
    ELSE LET inicio_interseccion == Max(fecha_pmi, row.desde)
             fin_interseccion    == Min(fecha_final, row.hasta)
         IN  IF inicio_interseccion <= fin_interseccion
             THEN IF ~isna(row.valor)
                  THEN row.valor * ((fin_interseccion - inicio_interseccion) + 1)
                  ELSE 0
             ELSE 0

RECURSIVE actualizar_tasa(_, _, _)
\* actualizar_tasa of actualizacion.py: 30 * total_aporte_pct
actualizar_tasa(tabla, fecha_inicial, fecha_final) ==
    IF tabla = <<>> THEN 0
    ELSE act_aporte30(Head(tabla), fecha_inicial, fecha_final)
         + actualizar_tasa(Tail(tabla), fecha_inicial, fecha_final)

\* one iteration of the loop of actualizar_tasa (calculadora_despidos.py)
desp_aporte30(row, fecha_pmi, fecha_final) ==
    IF isna(row.desde) \/ isna(row.hasta) THEN 0
    ELSE LET inicio_interseccion == Max(fecha_pmi, row.desde)
             fin_interseccion    == Min(fecha_final, row.hasta)
         IN  IF inicio_interseccion <= fin_interseccion
             THEN IF ~isna(row.valor)
                  THEN row.valor * ((fin_interseccion - inicio_interseccion) + 1)
                  ELSE 0
             ELSE 0

RECURSIVE despidos_tasa_sin_solape(_, _, _)
\* the same loop skipping a row whose interval overlaps a later row of the table
despidos_tasa_sin_solape(tabla, fecha_inicial, fecha_final) ==
    IF tabla = <<>> THEN 0
    ELSE (IF \E j \in 2..Len(tabla) :
                /\ ~isna(tabla[j].desde) /\ ~isna(tabla[j].hasta)
                /\ ~isna(tabla[1].desde) /\ ~isna(tabla[1].hasta)
                /\ Max(tabla[1].desde, tabla[j].desde) <= Min(tabla[1].hasta, tabla[j].hasta)
          THEN 0
          ELSE desp_aporte30(Head(tabla), fecha_inicial, fecha_final))
         + despidos_tasa_sin_solape(Tail(tabla), fecha_inicial, fecha_final)

RECURSIVE despidos_actualizar_tasa(_, _, _)
\* actualizar_tasa of calculadora_despidos.py: 30 * total_aporte_pct
despidos_actualizar_tasa(tabla, fecha_inicial, fecha_final) ==
    IF tabla = <<>> THEN 0
    ELSE desp_aporte30(Head(tabla), fecha_inicial, fecha_final)
         + despidos_actualizar_tasa(Tail(tabla), fecha_inicial, fecha_final)

\* the interest alone, without the base
total_sin_base(monto, pct30) == Frac(monto * pct30, 3000)

\* monto * (1.0 + total_aporte_pct / 100.0), in cents, for 30 * total_aporte_pct = pct30
total_actualizado(monto, pct30) == Frac(monto * (3000 + pct30), 3000)

NoRes == [op |-> "none"]

\* a calculator that does not load a dataset leaves its table empty
SinTasa  == tasa_data = <<>> /\ df_tasa = <<>>
SinRipte == ripte_data = <<>> /\ df_ripte = <<>>
SinIpc   == ipc_data = <<>> /\ df_ipc = <<>>
SinPisos == pisos_data = <<>>
SinJus   == df_jus = <<>>

InitTasa ==
    /\ \E csv \in SeqsUpTo(TasaRows, MaxRows) :
          /\ df_tasa = csv
          /\ tasa_data = norm_tasa(csv)
    /\ SinRipte /\ SinIpc /\ SinPisos /\ SinJus
    /\ SinSesiones
    /\ SinRegulacion
    /\ res = NoRes

CalcularTasaActiva ==
    /\ \E fecha_pmi \in QueryDates, fecha_final \in QueryDates, capital_base \in Capitales :
          LET pct30 == calcular_tasa_activa(tasa_data, fecha_pmi, fecha_final)
          IN  res' = [op |-> "calcular_tasa_activa", desde |-> fecha_pmi, hasta |-> fecha_final, monto |-> capital_base,
                      pct30 |-> pct30, total |-> total_actualizado(capital_base, pct30)]
    /\ UNCHANGED <<tablas, proceso, regulacion>>

ActualizarTasa ==
    /\ \E fecha_inicial \in QueryDates, fecha_final \in QueryDates, monto_base \in Capitales :
          LET pct30 == actualizar_tasa(df_tasa, fecha_inicial, fecha_final)
          IN  res' = [op |-> "actualizar_tasa", desde |-> fecha_inicial, hasta |-> fecha_final, monto |-> monto_base,
                      pct30 |-> pct30, total |-> total_actualizado(monto_base, pct30)]
    /\ UNCHANGED <<tablas, proceso, regulacion>>

DespidosActualizarTasa ==
    /\ \E fecha_inicial \in QueryDates, fecha_final \in QueryDates, monto_base \in Capitales :
          LET pct30 == despidos_actualizar_tasa(df_tasa, fecha_inicial, fecha_final)
          IN  res' = [op |-> "despidos_actualizar_tasa", desde |-> fecha_inicial, hasta |-> fecha_final, monto |-> monto_base,
                      pct30 |-> pct30, total |-> total_actualizado(monto_base, pct30)]
    /\ UNCHANGED <<tablas, proceso, regulacion>>

NextTasa == CalcularTasaActiva \/ ActualizarTasa \/ DespidosActualizarTasa

SpecTasa == InitTasa /\ [][NextTasa]_vars

-----------------------------------------------------------------------------
(* RIPTE: monthly index series                                             *)
(* A row is [fecha, indice_ripte]; fecha is day 1 of the month of the row. *)
(* dataset_ripte.csv lists the months most recent first.  A coefficient is *)
(* kept as the pair <<numerator, denominator>>.                            *)

RipteFechas  == {MonthStart(1), MonthStart(2), MonthStart(3), MonthStart(4)}
RipteIndices == {0, 100, 150}
RipteRows    == [fecha : RipteFechas, indice_ripte : RipteIndices]
RipteQueryDates == {1, 15, 32, 45, 61, 70}

\* the order of the rows of dataset_ripte.csv: most recent month first, one row a month
Descendente(tabla) == \A i \in 1..(Len(tabla) - 1) : tabla[i].fecha > tabla[i + 1].fecha

\* DataManager._norm_ripte: drop the rows without fecha or ripte, keep the CSV order
norm_ripte(csv) == SelectSeq(csv, LAMBDA r : ~isna(r.fecha) /\ ~isna(r.indice_ripte))

\* get_ultimo_dato(df): df.iloc[0], None for an empty frame
get_ultimo_dato(df) == IF df = <<>> THEN None ELSE df[1]

\* the outcome of a division by zero
ZeroDivisionError == <<0, 0>>

\* a / b as Python evaluates it
Dividir(a, b) == IF b = 0 THEN ZeroDivisionError ELSE <<a, b>>

Uno == <<1, 1>>

\* df[df['fecha'] <= fecha]
HastaFecha(tabla, fecha) == SelectSeq(tabla, LAMBDA r : r.fecha <= fecha)

\* the same filter with a strict comparison
HastaFechaEstricto(tabla, fecha) == SelectSeq(tabla, LAMBDA r : r.fecha < fecha)

\* the lookup of DataManager.get_ripte_coeficiente, taking the rows strictly before fecha
lrt_ripte_estricto(tabla, fecha) ==
    LET ripte_pmi_data == HastaFechaEstricto(tabla, fecha)
    IN  IF ripte_pmi_data = <<>>
        THEN tabla[Len(tabla)].indice_ripte
        ELSE ripte_pmi_data[1].indice_ripte

\* the lookup of DataManager.get_ripte_coeficiente (tabla not empty)
lrt_ripte(tabla, fecha) ==
    LET ripte_pmi_data == HastaFecha(tabla, fecha)
    IN  IF ripte_pmi_data = <<>>
        THEN tabla[Len(tabla)].indice_ripte
        ELSE ripte_pmi_data[1].indice_ripte

\* the coefficient of get_ripte_coeficiente dividing whenever ripte_pmi >= 0
lrt_coeficiente_sin_guarda(ripte_pmi, ripte_final) ==
    IF ripte_pmi >= 0 THEN Dividir(ripte_final, ripte_pmi) ELSE Uno

\* coeficiente = ripte_final / ripte_pmi if ripte_pmi > 0 else 1.0
lrt_coeficiente(ripte_pmi, ripte_final) ==
    IF ripte_pmi > 0 THEN Dividir(ripte_final, ripte_pmi) ELSE Uno

\* DataManager.get_ripte_coeficiente: (coeficiente, ripte_pmi, ripte_final)
get_ripte_coeficiente(tabla, fecha_pmi, fecha_final) ==
    IF tabla = <<>>
    THEN [coeficiente |-> Uno, ripte_pmi |-> 0, ripte_final |-> 0]
    ELSE LET ripte_pmi   == lrt_ripte(tabla, fecha_pmi)
             ripte_final == lrt_ripte(tabla, fecha_final)
         IN  [coeficiente |-> lrt_coeficiente(ripte_pmi, ripte_final),
              ripte_pmi |-> ripte_pmi, ripte_final |-> ripte_final]

\* the lookup of actualizar_ripte of actualizacion.py (tabla not empty)
act_ripte(tabla, fecha) ==
    LET ripte_pmi_data == HastaFecha(tabla, fecha)
    IN  IF ripte_pmi_data = <<>>
        THEN get_ultimo_dato(tabla).indice_ripte
        ELSE get_ultimo_dato(ripte_pmi_data).indice_ripte

\* actualizar_ripte of actualizacion.py: the coefficient it returns and the two
\* index values it looked up (an exception returns the coefficient 1.0)
actualizar_ripte(tabla, fecha_inicial, fecha_final) ==
    IF tabla = <<>>
    THEN [coeficiente |-> Uno, ripte_pmi |-> None, ripte_final |-> None]
    ELSE LET ripte_pmi   == act_ripte(tabla, fecha_inicial)
             ripte_final == act_ripte(tabla, fecha_final)
             coeficiente == IF ripte_pmi > 0 THEN Dividir(ripte_final, ripte_pmi) ELSE Uno
         IN  [coeficiente |-> IF coeficiente = ZeroDivisionError THEN Uno ELSE coeficiente,
              ripte_pmi |-> ripte_pmi, ripte_final |-> ripte_final]

\* the lookup of actualizar_ripte of calculadora_despidos.py (tabla not empty)
desp_ripte(tabla, fecha) ==
    LET ripte_pmi_data == HastaFecha(tabla, fecha)
    IN  IF ripte_pmi_data = <<>>
        THEN tabla[Len(tabla)].indice_ripte
        ELSE ripte_pmi_data[1].indice_ripte

\* actualizar_ripte of calculadora_despidos.py: the coefficient it applies and
\* the two index values it looked up (an exception leaves the amount as it is)
despidos_actualizar_ripte(tabla, fecha_inicial, fecha_final) ==
    IF tabla = <<>>
    THEN [coeficiente |-> Uno, ripte_pmi |-> None, ripte_final |-> None]
    ELSE LET ripte_pmi   == desp_ripte(tabla, fecha_inicial)
             ripte_final == desp_ripte(tabla, fecha_final)
             coeficiente == IF ripte_pmi > 0 THEN Dividir(ripte_final, ripte_pmi) ELSE Uno
         IN  [coeficiente |-> IF coeficiente = ZeroDivisionError THEN Uno ELSE coeficiente,
              ripte_pmi |-> ripte_pmi, ripte_final |-> ripte_final]

InitRipte ==
    /\ \E csv \in SeqsUpTo(RipteRows, MaxRipteRows) :
          /\ Descendente(csv)
          /\ df_ripte = csv
          /\ ripte_data = norm_ripte(csv)
    /\ SinTasa /\ SinIpc /\ SinPisos /\ SinJus
    /\ SinSesiones
    /\ SinRegulacion
    /\ res = NoRes

GetRipteCoeficiente ==
    /\ \E fecha_pmi \in RipteQueryDates, fecha_final \in RipteQueryDates :
          res' = [op |-> "get_ripte_coeficiente",
                  desde |-> fecha_pmi, hasta |-> fecha_final,
                  ret |-> get_ripte_coeficiente(ripte_data, fecha_pmi, fecha_final)]
    /\ UNCHANGED <<tablas, proceso, regulacion>>

ActualizarRipte ==
    /\ \E fecha_inicial \in RipteQueryDates, fecha_final \in RipteQueryDates :
          res' = [op |-> "actualizar_ripte",
                  desde |-> fecha_inicial, hasta |-> fecha_final,
                  ret |-> actualizar_ripte(df_ripte, fecha_inicial, fecha_final)]
    /\ UNCHANGED <<tablas, proceso, regulacion>>

DespidosActualizarRipte ==
    /\ \E fecha_inicial \in RipteQueryDates, fecha_final \in RipteQueryDates :
          res' = [op |-> "despidos_actualizar_ripte",
                  desde |-> fecha_inicial, hasta |-> fecha_final,
                  ret |-> despidos_actualizar_ripte(df_ripte, fecha_inicial, fecha_final)]
    /\ UNCHANGED <<tablas, proceso, regulacion>>

\* obtener_ripte(df_ripte, año, mes) of ibm.py: the index of the row of that month
obtener_ripte(tabla, mes) ==
    LET fila == SelectSeq(tabla, LAMBDA r : month_of(r.fecha) = mes)
    IN  IF fila # <<>> THEN get_ultimo_dato(fila).indice_ripte ELSE None

\* the value None of a variation
SinVariacion == <<>>

\* calcular_variacion_ripte testing only for absent rows
calcular_variacion_sin_cero(tabla, mes_desde, mes_hasta) ==
    LET indice_desde == obtener_ripte(tabla, mes_desde)
        indice_hasta == obtener_ripte(tabla, mes_hasta)
    IN  IF indice_desde = None \/ indice_hasta = None
        THEN SinVariacion
        ELSE Dividir(indice_hasta - indice_desde, indice_desde)

\* calcular_variacion_ripte of ibm.py: (indice_hasta - indice_desde) / indice_desde
calcular_variacion_ripte(tabla, mes_desde, mes_hasta) ==
    LET indice_desde == obtener_ripte(tabla, mes_desde)
        indice_hasta == obtener_ripte(tabla, mes_hasta)
    IN  IF indice_desde = None \/ indice_hasta = None \/ indice_desde = 0
        THEN SinVariacion
        ELSE Dividir(indice_hasta - indice_desde, indice_desde)

\* salario_act of a row of the IBM table: salario * (1 + variacion), in cents
salario_actualizado(salario, variacion) ==
    IF variacion # SinVariacion /\ salario > 0
    THEN IF variacion = ZeroDivisionError THEN ZeroDivisionError
         ELSE <<salario * (variacion[2] + variacion[1]), variacion[2]>>
    ELSE <<salario, 1>>

IbmSalarios == {0, 100000}
IbmMeses == 1..4

IbmFila ==
    /\ \E mes \in IbmMeses, mes_pmi \in IbmMeses, salario \in IbmSalarios :
          /\ mes < mes_pmi
          /\ LET variacion == calcular_variacion_ripte(df_ripte, mes, mes_pmi)
             IN  res' = [op |-> "ibm_fila", mes |-> mes, mes_pmi |-> mes_pmi,
                         salario |-> salario, variacion |-> variacion,
                         salario_act |-> salario_actualizado(salario, variacion)]
    /\ UNCHANGED <<tablas, proceso, regulacion>>

NextRipte == GetRipteCoeficiente \/ ActualizarRipte \/ DespidosActualizarRipte \/ IbmFila

SpecRipte == InitRipte /\ [][NextRipte]_vars

-----------------------------------------------------------------------------
(* IPC: monthly percentage changes                                         *)
(* A row is [periodo, variacion]; variacion is the change of the month in  *)
(* percent.  A factor or percentage is a fraction <<n, d>> in lowest terms. *)

IpcPeriodos    == {NaT, 1, 20, 32}
IpcVariaciones == {NaN, 25, 100}
IpcRows        == [periodo : IpcPeriodos, variacion : IpcVariaciones]
IpcQueryDates  == {1, 15, 32, 45}
IpcMontos      == {1000}
TasasPuras     == {0, 6}

\* DataManager._norm_ipc: drop the rows without fecha or ipc, keep the CSV order
norm_ipc(csv) == SelectSeq(csv, LAMBDA r : ~isna(r.periodo) /\ ~isna(r.variacion))

\* the rows of the period, comparing the dates of the rows with the query dates as given
ipc_periodo_sin_dia1(tabla, fecha_pmi, fecha_final) ==
    SelectSeq(tabla, LAMBDA r : ~isna(r.periodo) /\ r.periodo >= fecha_pmi /\ r.periodo <= fecha_final)

\* ipc_periodo: the rows dated from day 1 of the month of fecha_pmi to day 1 of
\* the month of fecha_final (a comparison with NaT is false)
ipc_periodo(tabla, fecha_pmi, fecha_final) ==
    LET fecha_inicio_mes == replace_day1(fecha_pmi)
        fecha_final_mes  == replace_day1(fecha_final)
    IN  SelectSeq(tabla, LAMBDA r :
            ~isna(r.periodo) /\ r.periodo >= fecha_inicio_mes /\ r.periodo <= fecha_final_mes)

RECURSIVE factor_acumulado(_, _)
\* the loop factor_acumulado *= (1 + variacion / 100) over the rows left
factor_acumulado(filas, factor) ==
    IF filas = <<>> THEN factor
    ELSE IF ~isna(Head(filas).variacion)
         THEN factor_acumulado(Tail(filas),
                  Frac(factor[1] * (100 + Head(filas).variacion), factor[2] * 100))
         ELSE factor_acumulado(Tail(filas), factor)

\* (factor_acumulado - 1) * 100
inflacion_acumulada(factor) == Frac((factor[1] - factor[2]) * 100, factor[2])

Cero == <<0, 1>>

\* DataManager.calcular_inflacion: the rows it selected and the percentage it returns
calcular_inflacion(tabla, fecha_pmi, fecha_final) ==
    IF tabla = <<>> THEN [seleccion |-> <<>>, inflacion |-> Cero]
    ELSE LET sel == ipc_periodo(tabla, fecha_pmi, fecha_final)
         IN  IF sel = <<>> THEN [seleccion |-> sel, inflacion |-> Cero]
             ELSE [seleccion |-> sel,
                   inflacion |-> inflacion_acumulada(factor_acumulado(sel, Uno))]

\* calcular_ipc_acumulado of calculadora_despidos.py
calcular_ipc_acumulado(tabla, fecha_inicial, fecha_final) ==
    IF tabla = <<>> THEN [seleccion |-> <<>>, inflacion |-> Cero]
    ELSE LET sel == ipc_periodo(tabla, fecha_inicial, fecha_final)
         IN  IF sel = <<>> THEN [seleccion |-> sel, inflacion |-> Cero]
             ELSE [seleccion |-> sel,
                   inflacion |-> inflacion_acumulada(factor_acumulado(sel, Uno))]

\* actualizar_ipc charging the pure interest also when no period is selected
actualizar_ipc_con_interes(monto_base, fecha_inicial, fecha_final, tabla, tasa_pura) ==
    LET sel == ipc_periodo(tabla, fecha_inicial, fecha_final)
        factor == factor_acumulado(sel, Uno)
        ipc_actualizado == Frac(monto_base * factor[1], factor[2])
    IN  [seleccion |-> sel,
         total |-> Frac(ipc_actualizado[1] * (100 + tasa_pura), ipc_actualizado[2] * 100),
         inflacion |-> inflacion_acumulada(factor),
         interes_puro |-> Frac(ipc_actualizado[1] * tasa_pura, ipc_actualizado[2] * 100)]

\* actualizar_ipc of actualizacion.py: (total, inflacion_acumulada, interes_puro)
actualizar_ipc(monto_base, fecha_inicial, fecha_final, tabla, tasa_pura) ==
    IF tabla = <<>>
    THEN [seleccion |-> <<>>, total |-> <<monto_base, 1>>, inflacion |-> Cero, interes_puro |-> Cero]
    ELSE LET sel == ipc_periodo(tabla, fecha_inicial, fecha_final)
         IN  IF sel = <<>>
             THEN [seleccion |-> sel, total |-> <<monto_base, 1>>,
                   inflacion |-> Cero, interes_puro |-> Cero]
             ELSE LET factor == factor_acumulado(sel, Uno)
                      ipc_actualizado == Frac(monto_base * factor[1], factor[2])
                      interes_puro == Frac(ipc_actualizado[1] * tasa_pura, ipc_actualizado[2] * 100)
                  IN  [seleccion |-> sel,
                       total |-> Frac(ipc_actualizado[1] * (100 + tasa_pura), ipc_actualizado[2] * 100),
                       inflacion |-> inflacion_acumulada(factor),
                       interes_puro |-> interes_puro]

InitIpc ==
    /\ \E csv \in SeqsUpTo(IpcRows, MaxIpcRows) :
          /\ df_ipc = csv
          /\ ipc_data = norm_ipc(csv)
    /\ SinTasa /\ SinRipte /\ SinPisos /\ SinJus
    /\ SinSesiones
    /\ SinRegulacion
    /\ res = NoRes

CalcularInflacion ==
    /\ \E fecha_pmi \in IpcQueryDates, fecha_final \in IpcQueryDates :
          res' = [op |-> "calcular_inflacion", desde |-> fecha_pmi, hasta |-> fecha_final,
                  ret |-> calcular_inflacion(ipc_data, fecha_pmi, fecha_final)]
    /\ UNCHANGED <<tablas, proceso, regulacion>>

CalcularIpcAcumulado ==
    /\ \E fecha_inicial \in IpcQueryDates, fecha_final \in IpcQueryDates :
          res' = [op |-> "calcular_ipc_acumulado", desde |-> fecha_inicial, hasta |-> fecha_final,
                  ret |-> calcular_ipc_acumulado(df_ipc, fecha_inicial, fecha_final)]
    /\ UNCHANGED <<tablas, proceso, regulacion>>

ActualizarIpc ==
    /\ \E fecha_inicial \in IpcQueryDates, fecha_final \in IpcQueryDates,
          monto_base \in IpcMontos, tasa_pura \in TasasPuras :
          res' = [op |-> "actualizar_ipc", desde |-> fecha_inicial, hasta |-> fecha_final,
                  monto |-> monto_base, tasa_pura |-> tasa_pura,
                  ret |-> actualizar_ipc(monto_base, fecha_inicial, fecha_final, df_ipc, tasa_pura)]
    /\ UNCHANGED <<tablas, proceso, regulacion>>

NextIpc == CalcularInflacion \/ CalcularIpcAcumulado \/ ActualizarIpc

SpecIpc == InitIpc /\ [][NextIpc]_vars

-----------------------------------------------------------------------------
(* Pisos: threshold table of the LRT calculator                            *)
(* A row is [desde, hasta, piso, resol]; hasta is NaT for an open interval. *)

PisosDesde == {10, 40}
PisosHasta == {NaT, 30, 60}
PisosMonto == {NaN, 100, 200}
PisosResol == {"Res. A", "Res. B"}
PisosRows  == [desde : PisosDesde, hasta : PisosHasta, piso : PisosMonto, resol : PisosResol]
PisosQueryDates == {5, 10, 35, 50, 70}

\* the orders of the rows of a table
Permutaciones(t) ==
    {[i \in 1..Len(t) |-> t[f[i]]] :
        f \in {g \in [1..Len(t) -> 1..Len(t)] : \A i, j \in 1..Len(t) : g[i] = g[j] => i = j}}

\* DataManager._norm_pisos: drop the rows without desde or piso and sort by desde;
\* sort_values uses quicksort, which may leave rows of equal desde in any order
norm_pisos(csv) ==
    {t \in Permutaciones(SelectSeq(csv, LAMBDA r : ~isna(r.desde) /\ ~isna(r.piso))) :
        \A i \in 1..(Len(t) - 1) : t[i].desde <= t[i + 1].desde}

\* (None, "")
SinPiso == [piso |-> None, resol |-> ""]

RECURSIVE get_piso_sin_vigencia(_, _, _)
\* the loop of get_piso_minimo taking every open interval as candidate
get_piso_sin_vigencia(tabla, fecha_pmi, candidate) ==
    IF tabla = <<>> THEN candidate
    ELSE LET r == Head(tabla)
         IN  IF isna(r.hasta)
             THEN get_piso_sin_vigencia(Tail(tabla), fecha_pmi, [piso |-> r.piso, resol |-> r.resol])
             ELSE IF r.desde <= fecha_pmi /\ fecha_pmi <= r.hasta
                  THEN [piso |-> r.piso, resol |-> r.resol]
                  ELSE get_piso_sin_vigencia(Tail(tabla), fecha_pmi, candidate)

RECURSIVE get_piso_loop(_, _, _)
\* the loop of DataManager.get_piso_minimo over the rows left, with its candidate
get_piso_loop(tabla, fecha_pmi, candidate) ==
    IF tabla = <<>> THEN candidate
    ELSE LET r == Head(tabla)
         IN  IF isna(r.hasta)
             THEN IF fecha_pmi >= r.desde
                  THEN get_piso_loop(Tail(tabla), fecha_pmi, [piso |-> r.piso, resol |-> r.resol])
                  ELSE get_piso_loop(Tail(tabla), fecha_pmi, candidate)
             ELSE IF r.desde <= fecha_pmi /\ fecha_pmi <= r.hasta
                  THEN [piso |-> r.piso, resol |-> r.resol]
                  ELSE get_piso_loop(Tail(tabla), fecha_pmi, candidate)

\* DataManager.get_piso_minimo
get_piso_minimo(tabla, fecha_pmi) ==
    IF tabla = <<>> THEN SinPiso ELSE get_piso_loop(tabla, fecha_pmi, SinPiso)

(* JUS: table of honorarios.py                                             *)
(* A row is [desde, hasta, valor]: FECHA ENTRADA EN VIGENCIA, FECHA DE     *)
(* FINALIZACION (NaT while in force) and VALOR IUS in pesos.               *)

JusDesde == {10, 40, 65}
JusHasta == {NaT, 30, 60}
JusValor == {50, 80}
JusRows  == [desde : JusDesde, hasta : JusHasta, valor : JusValor]
JusMontos == {4000}

\* the order of the rows of Dataset_JUS.csv: most recent first
JusDescendente(tabla) == \A i \in 1..(Len(tabla) - 1) : tabla[i].desde > tabla[i + 1].desde

\* convertir_a_jus: valor_jus and jus_exacto; None after an exception (an empty
\* registro makes get_ultimo_dato return None, whose subscript raises)
convertir_a_jus(monto_pesos, fecha_conv, tabla) ==
    LET vigentes == SelectSeq(tabla, LAMBDA r :
                        r.desde <= fecha_conv /\ (isna(r.hasta) \/ r.hasta >= fecha_conv))
        registro == IF vigentes = <<>>
                    THEN (IF tabla = <<>> THEN <<>> ELSE <<tabla[Len(tabla)]>>)
                    ELSE vigentes
    IN  IF registro = <<>>
        THEN [valor_jus |-> None, jus_exacto |-> ZeroDivisionError]
        ELSE [valor_jus |-> get_ultimo_dato(registro).valor,
              jus_exacto |-> Dividir(monto_pesos, get_ultimo_dato(registro).valor)]

InitPisos ==
    /\ \E csv \in SeqsUpTo(PisosRows, MaxPisosRows) : pisos_data \in norm_pisos(csv)
    /\ SinTasa /\ SinRipte /\ SinIpc /\ SinJus
    /\ SinSesiones
    /\ SinRegulacion
    /\ res = NoRes

InitJus ==
    /\ \E csv \in SeqsUpTo(JusRows, MaxJusRows) : JusDescendente(csv) /\ df_jus = csv
    /\ SinTasa /\ SinRipte /\ SinIpc /\ SinPisos
    /\ SinSesiones
    /\ SinRegulacion
    /\ res = NoRes

\* the LRT calculator loads the pisos, the honorarios calculator the JUS values
InitLookups == InitPisos \/ InitJus

\* get_piso_minimo dropping the row it examined first from the table
GetPisoMinimoDescartando ==
    /\ pisos_data # <<>>
    /\ \E fecha_pmi \in PisosQueryDates :
          res' = [op |-> "get_piso_minimo", fecha |-> fecha_pmi,
                  ret |-> get_piso_minimo(pisos_data, fecha_pmi)]
    /\ pisos_data' = Tail(pisos_data)
    /\ UNCHANGED <<tasa_data, df_tasa, ripte_data, df_ripte, ipc_data, df_ipc, df_jus, proceso, regulacion>>

GetPisoMinimo ==
    /\ \E fecha_pmi \in PisosQueryDates :
          res' = [op |-> "get_piso_minimo", fecha |-> fecha_pmi,
                  ret |-> get_piso_minimo(pisos_data, fecha_pmi)]
    /\ UNCHANGED <<tablas, proceso, regulacion>>

ConvertirAJus ==
    /\ \E fecha_conversion \in PisosQueryDates, monto_pesos \in JusMontos :
          res' = [op |-> "convertir_a_jus", fecha |-> fecha_conversion,
                  ret |-> convertir_a_jus(monto_pesos, fecha_conversion, df_jus)]
    /\ UNCHANGED <<tablas, proceso, regulacion>>

SpecPisos == InitPisos /\ [][GetPisoMinimo]_vars

NextLookups == GetPisoMinimo \/ ConvertirAJus

SpecLookups == InitLookups /\ [][NextLookups]_vars

-----------------------------------------------------------------------------
(* redondear: rounding to 2 decimals                                       *)
(* A Decimal is [coef, exp]: the number coef * 10 ^ exp.  A float or int   *)
(* argument reaches quantize through Decimal(str(valor)), which has the    *)
(* digits of the decimal literal that str prints.                          *)

MaxCoef == 30

RECURSIVE Potencia10(_)
Potencia10(n) == IF n = 0 THEN 1 ELSE 10 * Potencia10(n - 1)

\* quantize(Decimal('0.01')) rounding a half to the even neighbour
quantize_half_even(dec) ==
    IF dec.exp >= -2
    THEN [coef |-> dec.coef * Potencia10(dec.exp + 2), exp |-> -2]
    ELSE LET p == Potencia10(-2 - dec.exp)
             q == Abs(dec.coef) \div p
             r == Abs(dec.coef) % p
             m == IF 2 * r > p \/ (2 * r = p /\ q % 2 = 1) THEN q + 1 ELSE q
         IN  [coef |-> IF dec.coef < 0 THEN -m ELSE m, exp |-> -2]

\* valor.quantize(Decimal('0.01'), rounding=ROUND_HALF_UP)
quantize(dec) ==
    IF dec.exp >= -2
    THEN [coef |-> dec.coef * Potencia10(dec.exp + 2), exp |-> -2]
    ELSE LET p == Potencia10(-2 - dec.exp)
             q == Abs(dec.coef) \div p
             r == Abs(dec.coef) % p
             m == IF 2 * r >= p THEN q + 1 ELSE q
         IN  [coef |-> IF dec.coef < 0 THEN -m ELSE m, exp |-> -2]

\* redondear(valor): both branches end in the same quantize
redondear(dec) == quantize(dec)

\* the arguments: small magnitudes and the two examples of the docstring, with
\* 0 to 4 decimals, positive and negative
Magnitudes == (0..MaxCoef) \cup {10124, 10125}
Decimales  == [coef : Magnitudes \cup {-c : c \in Magnitudes}, exp : {0, -1, -2, -3, -4}]

InitRedondear ==
    /\ SinTasa /\ SinRipte /\ SinIpc /\ SinPisos /\ SinJus
    /\ SinSesiones
    /\ SinRegulacion
    /\ res = NoRes

\* redondear of a float or int
Redondear ==
    /\ \E valor \in Decimales :
          res' = [op |-> "redondear", valor |-> valor, ret |-> redondear(valor)]
    /\ UNCHANGED <<tablas, proceso, regulacion>>

\* redondear of the Decimal that redondear returned
RedondearDecimal ==
    /\ res.op = "redondear"
    /\ res' = [op |-> "redondear", valor |-> res.ret, ret |-> redondear(res.ret)]
    /\ UNCHANGED <<tablas, proceso, regulacion>>

NextRedondear == Redondear \/ RedondearDecimal

SpecRedondear == InitRedondear /\ [][NextRedondear]_vars

-----------------------------------------------------------------------------
(* Script runs of the sessions (app.py)                                    *)
(* resultado of a run: "calculado" when the body of the application module *)
(* ran for the session, "sin_calculo" when import_module returned a module *)
(* of the table without running it, "error" when the run raised.           *)

InitSesiones ==
    /\ SinTasa /\ SinRipte /\ SinIpc /\ SinPisos /\ SinJus
    /\ res = NoRes
    /\ sys_modules = {}
    /\ cwd \in {"launch", BASE_DIR}
    /\ sesion = [s \in Sesiones |-> EnMenu]
    /\ SinRegulacion

\* mostrar_menu_principal: st.session_state.app_actual = key; st.rerun()
ElegirApp(s) ==
    /\ sesion[s].pc = "menu"
    /\ \E m \in Modulos :
          sesion' = [sesion EXCEPT ![s] = [pc |-> "inicio", app_actual |-> m,
                                           visto |-> FALSE, resultado |-> "pendiente"]]
    /\ UNCHANGED <<tablas, res, sys_modules, cwd, regulacion>>

\* the start of a script run: os.chdir(BASE_DIR)
Inicio(s) ==
    /\ sesion[s].pc = "inicio"
    /\ cwd' = BASE_DIR
    /\ sesion' = [sesion EXCEPT ![s].pc = "comprobar"]
    /\ UNCHANGED <<tablas, res, sys_modules, regulacion>>

\* ejecutar_aplicacion: if modulo_name in sys.modules
Comprobar(s) ==
    /\ sesion[s].pc = "comprobar"
    /\ LET visto == sesion[s].app_actual \in sys_modules
       IN  sesion' = [sesion EXCEPT ![s].visto = visto,
                                    ![s].pc = IF visto THEN "borrar" ELSE "importar"]
    /\ UNCHANGED <<tablas, res, sys_modules, cwd, regulacion>>

\* ejecutar_aplicacion: del sys.modules[modulo_name]; a KeyError is caught by
\* the except of the function, which reports the error
Borrar(s) ==
    /\ sesion[s].pc = "borrar"
    /\ IF sesion[s].app_actual \in sys_modules
       THEN /\ sys_modules' = sys_modules \ {sesion[s].app_actual}
            /\ sesion' = [sesion EXCEPT ![s].pc = "importar"]
       ELSE /\ sys_modules' = sys_modules
            /\ sesion' = [sesion EXCEPT ![s].pc = "fin", ![s].resultado = "error"]
    /\ UNCHANGED <<tablas, res, cwd, regulacion>>

\* importlib.import_module(modulo_name): waits while another thread is
\* loading the module; a module of the table is returned as it is, else the
\* module is entered in the table and its body starts
Importar(s) ==
    /\ sesion[s].pc = "importar"
    /\ \A o \in Sesiones \ {s} :
          ~(sesion[o].pc = "ejecutando" /\ sesion[o].app_actual = sesion[s].app_actual
            /\ sesion[s].app_actual \in sys_modules)
    /\ IF sesion[s].app_actual \in sys_modules
       THEN /\ sys_modules' = sys_modules
            /\ sesion' = [sesion EXCEPT ![s].pc = "fin", ![s].resultado = "sin_calculo"]
       ELSE /\ sys_modules' = sys_modules \cup {sesion[s].app_actual}
            /\ sesion' = [sesion EXCEPT ![s].pc = "ejecutando"]
    /\ UNCHANGED <<tablas, res, cwd, regulacion>>

\* the body of the application module: it reads data/*.csv relative to the
\* working directory and calculates; import_module then takes the module from
\* the table and fails when it is not there
Ejecutar(s) ==
    /\ sesion[s].pc = "ejecutando"
    /\ sesion' = [sesion EXCEPT ![s].pc = "fin",
                                ![s].resultado =
                                    IF cwd = BASE_DIR /\ sesion[s].app_actual \in sys_modules
                                    THEN "calculado" ELSE "error"]
    /\ UNCHANGED <<tablas, res, sys_modules, cwd, regulacion>>

\* a widget of the application changes: the script runs again
Rerun(s) ==
    /\ sesion[s].pc = "fin"
    /\ sesion' = [sesion EXCEPT ![s].pc = "inicio", ![s].visto = FALSE,
                                ![s].resultado = "pendiente"]
    /\ UNCHANGED <<tablas, res, sys_modules, cwd, regulacion>>

\* main: "Volver al Menu Principal", st.session_state.app_actual = None
Volver(s) ==
    /\ sesion[s].pc = "fin"
    /\ sesion' = [sesion EXCEPT ![s] = EnMenu]
    /\ UNCHANGED <<tablas, res, sys_modules, cwd, regulacion>>

NextSesiones ==
    \E s \in Sesiones :
        \/ ElegirApp(s)
        \/ Inicio(s)
        \/ Comprobar(s)
        \/ Borrar(s)
        \/ Importar(s)
        \/ Ejecutar(s)
        \/ Rerun(s)
        \/ Volver(s)

SpecSesiones == InitSesiones /\ [][NextSesiones]_vars

-----------------------------------------------------------------------------
(* Dismissal calculator (calculadora_despidos.py)                          *)
(* fecha_despido and fecha_liquidacion are day ordinals of 2024,           *)
(* fecha_ingreso is a record [year, month, day].  Amounts are cents; a     *)
(* Decimal quotient is the exact fraction <<n, d>> until it is quantized.  *)

\* the date of a day ordinal of 2024
Fecha(d) == [year |-> 2024, month |-> month_of(d), day |-> day_of(d)]

IngresoAnios == {2003, 2004, 2014, 2019, 2020, 2024}
IngresoMeses == {2, 6}
IngresoDias  == {10, 15, 20}
FechasIngreso == [year : IngresoAnios, month : IngresoMeses, day : IngresoDias]
\* 2024-02-29, 2024-05-15, 2024-12-15
FechasDespido == {60, 136, 350}
\* 2024-12-31
FechaTope == 366
Salarios == {0, 101}

\* fecha_ingreso <= fecha_despido, the min_value of the date input
NoPosterior(fecha_ingreso, fecha_despido) ==
    \/ fecha_ingreso.year < fecha_despido.year
    \/ /\ fecha_ingreso.year = fecha_despido.year
       /\ \/ fecha_ingreso.month < fecha_despido.month
          \/ /\ fecha_ingreso.month = fecha_despido.month
             /\ fecha_ingreso.day <= fecha_despido.day

\* calcular_antiguedad(fecha_ingreso, fecha_despido): (años, meses)
calcular_antiguedad(fecha_ingreso, fecha_despido) ==
    LET anios0 == fecha_despido.year - fecha_ingreso.year
        meses0 == fecha_despido.month - fecha_ingreso.month
        dias   == fecha_despido.day - fecha_ingreso.day
        meses1 == IF dias < 0 THEN meses0 - 1 ELSE meses0
        anios1 == IF meses1 < 0 THEN anios0 - 1 ELSE anios0
        meses2 == IF meses1 < 0 THEN meses1 + 12 ELSE meses1
    IN  IF meses2 > 3
        THEN [anios |-> anios1 + 1, meses |-> 0]
        ELSE [anios |-> anios1, meses |-> meses2]

\* calcular_dias_vacaciones(años_antiguedad)
calcular_dias_vacaciones(anios_antiguedad) ==
    IF anios_antiguedad < 5 THEN 14
    ELSE IF anios_antiguedad < 10 THEN 21
    ELSE IF anios_antiguedad < 20 THEN 28
    ELSE 35

\* quantize(Decimal('0.01'), rounding=ROUND_HALF_UP) of a non-negative
\* quotient of cents: whole cents
quantize_cociente(f) == (2 * f[1] + f[2]) \div (2 * f[2])

\* a >= b for two non-negative fractions
MayorIgual(a, b) ==
    LET ea == a[1] \div a[2]
        eb == b[1] \div b[2]
    IN  \/ ea > eb
        \/ ea = eb /\ (a[1] % a[2]) * b[2] >= (b[1] % b[2]) * a[2]

\* a > b for two non-negative fractions in lowest terms
Mayor(a, b) == MayorIgual(a, b) /\ a # b

\* actualizar_ripte of calculadora_despidos.py: total_ripte_3
despidos_total_ripte_3(monto_base, fecha_inicial, fecha_final, tabla) ==
    IF tabla = <<>> THEN <<monto_base, 1>>
    ELSE LET coeficiente == despidos_actualizar_ripte(tabla, fecha_inicial, fecha_final).coeficiente
             ripte_actualizado == Frac(monto_base * coeficiente[1], coeficiente[2])
             dias == fecha_final - fecha_inicial
         IN  \* ripte_actualizado + ripte_actualizado * 0.03 * (dias / 365.0)
             Frac(ripte_actualizado[1] * (36500 + 3 * dias), ripte_actualizado[2] * 36500)

\* the datasets of the calculator: loaded, or missing
DespRipte == <<[fecha |-> MonthStart(3), indice_ripte |-> 150],
               [fecha |-> MonthStart(1), indice_ripte |-> 100]>>
DespTasa  == <<[desde |-> 1, hasta |-> 366, valor |-> 3]>>
DespIpc   == <<[periodo |-> MonthStart(6), variacion |-> 25]>>

InitDespidos ==
    /\ \/ df_ripte = DespRipte /\ df_tasa = DespTasa /\ df_ipc = DespIpc
       \/ df_ripte = <<>> /\ df_tasa = <<>> /\ df_ipc = <<>>
    /\ ripte_data = <<>> /\ tasa_data = <<>> /\ ipc_data = <<>>
    /\ SinPisos /\ SinJus
    /\ SinSesiones
    /\ SinRegulacion
    /\ res = NoRes

\* the items of the liquidation, each quantized to cents
rubros(anios, fecha_despido, salario, se_pago_preaviso) ==
    LET sustitutiva == IF ~se_pago_preaviso
                       THEN (IF anios < 5 THEN salario ELSE salario * 2)
                       ELSE 0
        dias_mes == days_in_month(fecha_despido)
        dias_trabajados_mes == day_of(fecha_despido)
        integracion == IF dias_trabajados_mes = dias_mes
                       THEN <<0, 1>>
                       ELSE <<salario * (dias_mes - dias_trabajados_mes), dias_mes>>
        dias_desde_sac == IF month_of(fecha_despido) <= 6
                          THEN fecha_despido - MonthStart(1)
                          ELSE fecha_despido - MonthStart(7)
        dias_vacaciones == calcular_dias_vacaciones(anios)
    IN  [antiguedad_245 |-> quantize_cociente(<<salario * anios, 1>>),
         sustitutiva_preaviso |-> quantize_cociente(<<sustitutiva, 1>>),
         sac_preaviso |-> quantize_cociente(<<sustitutiva, 12>>),
         dias_trabajados |-> quantize_cociente(<<salario * dias_trabajados_mes, dias_mes>>),
         integracion_mes |-> quantize_cociente(integracion),
         sac_integracion |-> quantize_cociente(<<integracion[1], integracion[2] * 12>>),
         sac_proporcional |-> quantize_cociente(<<salario * dias_desde_sac, 365>>),
         dias_vacaciones |-> dias_vacaciones,
         vacaciones |-> quantize_cociente(<<salario * dias_vacaciones, 25>>),
         sac_vacaciones |-> quantize_cociente(<<salario * dias_vacaciones, 25 * 12>>)]

\* total of the items
total_rubros(r) ==
    r.antiguedad_245 + r.sustitutiva_preaviso + r.sac_preaviso + r.dias_trabajados
    + r.integracion_mes + r.sac_integracion + r.sac_proporcional + r.vacaciones
    + r.sac_vacaciones

\* st.session_state.datos_actualizacion
datos_actualizacion(total, fecha_despido, fecha_liquidacion) ==
    [ripte |-> despidos_total_ripte_3(total, fecha_despido, fecha_liquidacion, df_ripte),
     tasa  |-> total_actualizado(total,
                   despidos_actualizar_tasa(df_tasa, fecha_despido, fecha_liquidacion)),
     ipc   |-> calcular_ipc_acumulado(df_ipc, fecha_despido, fecha_liquidacion).inflacion]

\* the view of the updates: es_ripte_mayor marks RIPTE + 3 %, its negation
\* marks Tasa Activa, on the page and in the PDF
despidos_vista(datos_act) ==
    LET es_ripte_mayor == MayorIgual(datos_act.ripte, datos_act.tasa)
    IN  [pagina_ripte |-> es_ripte_mayor, pagina_tasa |-> ~es_ripte_mayor,
         pdf_ripte |-> es_ripte_mayor, pdf_tasa |-> ~es_ripte_mayor]

\* "CALCULAR INDEMNIZACION": the items, their total, the updates of the total
\* and the view
CalcularDespido ==
    /\ \E fecha_ingreso \in FechasIngreso, fecha_despido \in FechasDespido,
          salario \in Salarios, se_pago_preaviso \in BOOLEAN :
       \E fecha_liquidacion \in {fecha_despido, FechaTope} :
          /\ NoPosterior(fecha_ingreso, Fecha(fecha_despido))
          /\ \E ant \in {calcular_antiguedad(fecha_ingreso, Fecha(fecha_despido))} :
             \E r \in {rubros(ant.anios, fecha_despido, salario, se_pago_preaviso)} :
             \E total \in {total_rubros(r)} :
             \E datos_act \in {datos_actualizacion(total, fecha_despido, fecha_liquidacion)} :
                res' = r @@ [op |-> "calcular_despido",
                             fecha_ingreso |-> fecha_ingreso, fecha_despido |-> fecha_despido,
                             fecha_liquidacion |-> fecha_liquidacion, salario |-> salario,
                             se_pago_preaviso |-> se_pago_preaviso,
                             anios |-> ant.anios, meses |-> ant.meses,
                             total |-> total, datos_actualizacion |-> datos_act,
                             vista |-> despidos_vista(datos_act)]
    /\ UNCHANGED <<tablas, proceso, regulacion>>

SpecDespidos == InitDespidos /\ [][CalcularDespido]_vars

-----------------------------------------------------------------------------
(* LRT calculator (Calculator of calculadora_lrt.py)                       *)
(* Amounts are cents; a float amount is the exact fraction <<n, d>> and an  *)
(* amount returned by float(redondear(...)) is a whole number of cents.     *)
(* The ages and indices used make the Decimal quotients finite decimals.    *)

LrtPmiDates   == {1, 15}
LrtFinalDates == {15, 45}
LrtIbm        == {0, 1000, 1001}
LrtEdades     == {50, 65}
LrtIncapacidades == {33, 50}

\* the datasets of the calculator
LrtPisos == {<<>>,
             <<[desde |-> 1, hasta |-> NaT, piso |-> 53000, resol |-> "Res. A"]>>,
             <<[desde |-> 10, hasta |-> NaT, piso |-> 400001, resol |-> "Res. B"]>>}
LrtRipte == {<<>>, <<[fecha |-> MonthStart(2), indice_ripte |-> 150],
                     [fecha |-> MonthStart(1), indice_ripte |-> 100]>>}
LrtTasa  == {<<>>, <<[desde |-> 1, hasta |-> NaT, valor |-> 3]>>}
LrtIpc   == {<<>>, <<[periodo |-> MonthStart(1), variacion |-> 25]>>}

\* Calculator._calcular_capital_formula: cents
calcular_capital_formula(ibm, edad, incapacidad_pct) ==
    quantize_cociente(<<ibm * 53 * 65 * incapacidad_pct, edad * 100>>)

\* _aplicar_piso_minimo comparing only the floor itself with the capital
aplicar_piso_sin_proporcion(capital_formula, piso_minimo, piso_norma, incapacidad_pct) ==
    IF piso_minimo = None
    THEN [capital_aplicado |-> <<capital_formula, 1>>, piso_aplicado |-> FALSE,
          piso_info |-> "No se encontro piso minimo para la fecha",
          piso_proporcional |-> <<0, 1>>]
    ELSE IF MayorIgual(<<capital_formula, 1>>, <<piso_minimo, 1>>)
         THEN [capital_aplicado |-> <<capital_formula, 1>>, piso_aplicado |-> FALSE,
               piso_info |-> "Supera piso minimo",
               piso_proporcional |-> Frac(piso_minimo * incapacidad_pct, 100)]
         ELSE [capital_aplicado |-> Frac(piso_minimo * incapacidad_pct, 100),
               piso_aplicado |-> TRUE,
               piso_info |-> "Se aplica piso minimo",
               piso_proporcional |-> Frac(piso_minimo * incapacidad_pct, 100)]



\* Calculator._aplicar_piso_minimo
aplicar_piso_minimo(capital_formula, piso_minimo, piso_norma, incapacidad_pct) ==
    IF piso_minimo = None
    THEN [capital_aplicado |-> <<capital_formula, 1>>, piso_aplicado |-> FALSE,
          piso_info |-> "No se encontro piso minimo para la fecha",
          piso_proporcional |-> <<0, 1>>]
    ELSE LET piso_proporcional == Frac(piso_minimo * incapacidad_pct, 100)
         IN  IF MayorIgual(<<capital_formula, 1>>, piso_proporcional)
             THEN [capital_aplicado |-> <<capital_formula, 1>>, piso_aplicado |-> FALSE,
                   piso_info |-> "Supera piso minimo",
                   piso_proporcional |-> piso_proporcional]
             ELSE [capital_aplicado |-> piso_proporcional, piso_aplicado |-> TRUE,
                   piso_info |-> "Se aplica piso minimo",
                   piso_proporcional |-> piso_proporcional]

\* adicional_20_pct: cents
adicional_20_pct(capital_aplicado, incluir_20_pct) ==
    IF incluir_20_pct
    THEN quantize_cociente(<<capital_aplicado[1] * 20, capital_aplicado[2] * 100>>)
    ELSE 0

\* capital_base = redondear(capital_aplicado + adicional_20_pct): cents
capital_base_de(capital_aplicado, adicional) ==
    quantize_cociente(<<capital_aplicado[1] + adicional * capital_aplicado[2], capital_aplicado[2]>>)

\* ripte_actualizado = redondear(capital_base * ripte_coef): cents
ripte_actualizado_de(capital_base, ripte_coef) ==
    quantize_cociente(<<capital_base * ripte_coef[1], ripte_coef[2]>>)

\* the pure interest over a year of 365.25 days
interes_puro_anio_juliano(ripte_actualizado, dias_transcurridos) ==
    quantize_cociente(<<ripte_actualizado * 3 * 4 * dias_transcurridos, 100 * 1461>>)

\* interes_puro_3_pct = redondear(ripte_actualizado * 0.03 * dias / 365.0): cents
interes_puro_3_pct_de(ripte_actualizado, dias_transcurridos) ==
    quantize_cociente(<<ripte_actualizado * 3 * dias_transcurridos, 100 * 365>>)

\* the liquidation choosing Tasa Activa when the two totals are equal
liquidacion_tasa_en_empate(total_ripte_3, total_tasa_activa) ==
    IF MayorIgual(<<total_ripte_3, 1>>, total_tasa_activa)
       /\ <<total_ripte_3, 1>> # total_tasa_activa
    THEN [total_actualizacion |-> <<total_ripte_3, 1>>, metodo_usado |-> "tasa de variacion RIPTE"]
    ELSE [total_actualizacion |-> total_tasa_activa, metodo_usado |-> "Tasa Activa BNA"]

\* tab 4, liquidation: the method used and its total
liquidacion(total_ripte_3, total_tasa_activa) ==
    IF MayorIgual(<<total_ripte_3, 1>>, total_tasa_activa)
    THEN [total_actualizacion |-> <<total_ripte_3, 1>>, metodo_usado |-> "tasa de variacion RIPTE"]
    ELSE [total_actualizacion |-> total_tasa_activa, metodo_usado |-> "Tasa Activa BNA"]

\* results tab: the two es_mayor flags
vista_resultados(total_ripte_3, total_tasa_activa) ==
    [ripte |-> MayorIgual(<<total_ripte_3, 1>>, total_tasa_activa),
     tasa  |-> Mayor(total_tasa_activa, <<total_ripte_3, 1>>)]

\* tab 2, PDF: metodo_favorable
vista_pdf(total_ripte_3, total_tasa_activa) ==
    IF MayorIgual(<<total_ripte_3, 1>>, total_tasa_activa)
    THEN "RIPTE + 3%" ELSE "Tasa Activa BNA"

InitLrt ==
    /\ pisos_data \in LrtPisos
    /\ ripte_data \in LrtRipte /\ df_ripte = ripte_data
    /\ tasa_data \in LrtTasa /\ df_tasa = tasa_data
    /\ ipc_data \in LrtIpc /\ df_ipc = ipc_data
    /\ SinJus
    /\ SinSesiones
    /\ SinRegulacion
    /\ res = NoRes

\* Calculator.calcular_indemnizacion and the views of its Results
CalcularIndemnizacion ==
    /\ \E pmi_date \in LrtPmiDates, final_date \in LrtFinalDates, ibm \in LrtIbm,
          edad \in LrtEdades, incapacidad_pct \in LrtIncapacidades,
          incluir_20_pct \in BOOLEAN :
       \E capital_formula \in {calcular_capital_formula(ibm, edad, incapacidad_pct)} :
       \E piso \in {get_piso_minimo(pisos_data, pmi_date)} :
       \E ap \in {aplicar_piso_minimo(capital_formula, piso.piso, piso.resol, incapacidad_pct)} :
       \E adicional \in {adicional_20_pct(ap.capital_aplicado, incluir_20_pct)} :
       \E capital_base \in {capital_base_de(ap.capital_aplicado, adicional)} :
       \E ripte \in {get_ripte_coeficiente(ripte_data, pmi_date, final_date)} :
       \E ripte_actualizado \in {ripte_actualizado_de(capital_base, ripte.coeficiente)} :
       \E interes \in {interes_puro_3_pct_de(ripte_actualizado, final_date - pmi_date)} :
       \E tasa_pct30 \in {calcular_tasa_activa(tasa_data, pmi_date, final_date)} :
       \E total_tasa_activa \in {total_actualizado(capital_base, tasa_pct30)} :
          res' = [op |-> "calcular_indemnizacion",
                  pmi_date |-> pmi_date, final_date |-> final_date, ibm |-> ibm,
                  edad |-> edad, incapacidad_pct |-> incapacidad_pct,
                  incluir_20_pct |-> incluir_20_pct,
                  capital_formula |-> capital_formula,
                  capital_aplicado |-> ap.capital_aplicado,
                  capital_base |-> capital_base,
                  piso_aplicado |-> ap.piso_aplicado,
                  piso_info |-> ap.piso_info,
                  piso_monto |-> IF piso.piso = None THEN 0 ELSE piso.piso,
                  piso_proporcional |-> ap.piso_proporcional,
                  piso_norma |-> piso.resol,
                  adicional_20_pct |-> adicional,
                  ripte_coef |-> ripte.coeficiente,
                  ripte_pmi |-> ripte.ripte_pmi, ripte_final |-> ripte.ripte_final,
                  ripte_actualizado |-> ripte_actualizado,
                  interes_puro_3_pct |-> interes,
                  total_ripte_3 |-> ripte_actualizado + interes,
                  tasa_activa_pct30 |-> tasa_pct30,
                  total_tasa_activa |-> total_tasa_activa,
                  inflacion_acum_pct |-> calcular_inflacion(ipc_data, pmi_date, final_date).inflacion,
                  vista_resultados |-> vista_resultados(ripte_actualizado + interes, total_tasa_activa),
                  vista_pdf |-> vista_pdf(ripte_actualizado + interes, total_tasa_activa),
                  liquidacion |-> liquidacion(ripte_actualizado + interes, total_tasa_activa)]
    /\ UNCHANGED <<tablas, proceso, regulacion>>

SpecLrt == InitLrt /\ [][CalcularIndemnizacion]_vars

-----------------------------------------------------------------------------
(* The two calculators that show the most favourable update *)

InitVistas ==
    /\ ripte_data \in LrtRipte
    /\ df_ripte = IF ripte_data = <<>> THEN <<>> ELSE DespRipte
    /\ tasa_data \in LrtTasa
    /\ df_tasa = IF tasa_data = <<>> THEN <<>> ELSE DespTasa
    /\ SinIpc /\ SinPisos /\ SinJus
    /\ SinSesiones
    /\ SinRegulacion
    /\ res = NoRes

NextVistas == CalcularIndemnizacion \/ CalcularDespido

SpecVistas == InitVistas /\ [][NextVistas]_vars

-----------------------------------------------------------------------------
(* IBM calculator (ibm.py): the table of the 12 months before the PMI      *)
(* A month is its number in 2024; 0, -1, ... are December, November, ... of *)
(* 2023, for which dataset_ripte.csv as modelled has no row.  Salaries are  *)
(* cents; position i of salarios is the i-th month of the table.            *)

MesesAnteriores == 12
IbmMesesPmi     == {2, 3, 4}
IbmSalariosMes  == {0, 100000, 100001}
\* the positions of the table where a salary is entered
IbmPosiciones   == {1, 11, 12}
IbmTablasDeSalarios ==
    {[i \in 1..MesesAnteriores |-> IF i \in IbmPosiciones THEN f[i] ELSE 0] :
        f \in [IbmPosiciones -> IbmSalariosMes]}

\* obtener_meses_anteriores: the months of the table, oldest first
obtener_meses_anteriores(mes_pmi) ==
    [i \in 1..MesesAnteriores |-> mes_pmi - (MesesAnteriores + 1) + i]

\* a + b of two fractions
SumarFrac(a, b) == Frac(a[1] * b[2] + b[1] * a[2], a[2] * b[2])

RECURSIVE SumarDatos(_, _)
\* sum(d[campo] for d in datos_calc if d['incluir'] and d['salario'] > 0)
SumarDatos(datos_calc, campo) ==
    IF datos_calc = <<>> THEN Cero
    ELSE LET d == Head(datos_calc)
             resto == SumarDatos(Tail(datos_calc), campo)
         IN  IF d.incluir /\ d.salario[1] > 0 THEN SumarFrac(d[campo], resto) ELSE resto

\* the average taken over the 12 months of the table
ibm_promedio_anual(total_act, meses_datos) ==
    IF meses_datos > 0
    THEN quantize_cociente(<<total_act[1], total_act[2] * MesesAnteriores>>)
    ELSE 0

\* ibm = (total_act / meses_datos).quantize(0.01, ROUND_HALF_UP), 0 without data
ibm_promedio(total_act, meses_datos) ==
    IF meses_datos > 0
    THEN quantize_cociente(<<total_act[1], total_act[2] * meses_datos>>)
    ELSE 0

\* the rows of the table and the totals under it
CalcularIbm ==
    /\ \E mes_pmi \in IbmMesesPmi, salarios \in IbmTablasDeSalarios :
          \E meses \in {obtener_meses_anteriores(mes_pmi)} :
          \E datos_calc \in {[i \in 1..MesesAnteriores |->
                  LET variacion == calcular_variacion_ripte(df_ripte, meses[i], mes_pmi)
                  IN  [periodo |-> meses[i],
                       salario |-> <<salarios[i], 1>>,
                       variacion |-> variacion,
                       salario_act |-> salario_actualizado(salarios[i], variacion),
                       incluir |-> salarios[i] > 0]]} :
          \E total_act \in {SumarDatos(datos_calc, "salario_act")} :
          \E meses_datos \in {Cardinality({i \in 1..MesesAnteriores :
                                 datos_calc[i].incluir /\ salarios[i] > 0})} :
              res' = [op |-> "calcular_ibm", mes_pmi |-> mes_pmi, salarios |-> salarios,
                      datos_calc |-> datos_calc,
                      total_orig |-> SumarDatos(datos_calc, "salario"),
                      total_act |-> total_act,
                      meses_datos |-> meses_datos,
                      ibm |-> ibm_promedio(total_act, meses_datos)]
    /\ UNCHANGED <<tablas, proceso, regulacion>>

SpecIbm == InitRipte /\ [][CalcularIbm]_vars

-----------------------------------------------------------------------------
(* Every lookup and accumulation on the tables of one load *)

CalcJus == {<<>>, <<[desde |-> 10, hasta |-> NaT, valor |-> 50]>>}

\* the tables as loaded and normalized; the modules of one load read the same files
InitCalculos ==
    /\ pisos_data \in LrtPisos
    /\ ripte_data \in LrtRipte /\ df_ripte = ripte_data
    /\ tasa_data \in LrtTasa /\ df_tasa = tasa_data
    /\ ipc_data \in LrtIpc /\ df_ipc = ipc_data
    /\ df_jus \in CalcJus
    /\ SinSesiones
    /\ SinRegulacion
    /\ res = NoRes

NextCalculos == NextTasa \/ NextRipte \/ NextIpc \/ NextLookups \/ CalcularIndemnizacion

SpecCalculos == InitCalculos /\ [][NextCalculos]_vars

-----------------------------------------------------------------------------
(* Regulation tab of honorarios.py (Ley 24432)                             *)
(* pesos are cents; sums of fees with their Caja and IVA are in hundredths  *)
(* of a cent, so that 10 % and 21 % of a fee are whole numbers.  A step is  *)
(* one edit of a widget of the tab and the script run that stores it.       *)

MaxAbogados   == 2
MaxAuxiliares == 2
\* if len(st.session_state.aux_data) < 5
LimiteAuxiliares == 5

\* the values typed in the "% del monto" and "$ Monto" inputs
HonPcts  == {0, 22}
HonPesos == {0, 227, 400}

RECURSIVE SumaSeq(_)
\* sum([...]) of a list of integers
SumaSeq(seq) == IF seq = <<>> THEN 0 ELSE Head(seq) + SumaSeq(Tail(seq))

\* the list without its element i
SinElemento(seq, i) == SubSeq(seq, 1, i - 1) \o SubSeq(seq, i + 1, Len(seq))

\* limite_25 = monto_juicio * 0.25
limite_25 == monto_juicio * 25

\* a['pesos'] + a['pesos'] * 0.21 if a['iva'] + a['pesos'] * 0.10
con_extras(a) == a.pesos * (100 + (IF a.iva THEN 21 ELSE 0) + 10)

total_abog_con_extras(abogs) == SumaSeq([j \in 1..Len(abogs) |-> con_extras(abogs[j])])

\* total_aux = sum([a['pesos'] for a in aux_data])
total_aux(auxs) == 100 * SumaSeq(auxs)

\* total_usado = total_abog + total_iva + total_caja + total_aux
total_usado == total_abog_con_extras(abog_data) + total_aux(aux_data)

\* disp = limite_25 - total_aux - otros - otros_iva - otros_caja (the other
\* lawyers), and disp_ajustado = disp + monto_total_abog (this lawyer)
disp_ajustado(i) ==
    limite_25 - total_aux(aux_data) - total_abog_con_extras(SinElemento(abog_data, i))
    + con_extras(abog_data[i])

\* (1.21 if abog['iva'] else 1) * 1.10, in thousandths
factor_abog(a) == IF a.iva THEN 1331 ELSE 1100

\* 0 <= pct <= max(0, max_pct), max_pct = disp_ajustado / (monto_juicio * factor) * 100
pct_abog_admitido(pct, i) ==
    pct = 0 \/ pct * monto_juicio * factor_abog(abog_data[i]) <= disp_ajustado(i) * 1000

\* 0 <= pesos <= max(0, max_pesos_permitido), max_pesos_permitido = disp_ajustado / factor
pesos_abog_admitido(pesos, i) ==
    pesos = 0 \/ pesos * factor_abog(abog_data[i]) <= disp_ajustado(i) * 10

\* disp = limite_25 - total_abog_con_extras - otros (the other auxiliaries)
disp_aux(i) ==
    limite_25 - total_abog_con_extras(abog_data) - total_aux(SinElemento(aux_data, i))

\* 0 <= pct <= max(0, disp / monto_juicio * 100)
pct_aux_admitido(pct, i) == pct = 0 \/ pct * monto_juicio <= disp_aux(i)

\* 0 <= pesos <= max(0, disp)
pesos_aux_admitido(pesos, i) == pesos = 0 \/ pesos * 100 <= disp_aux(i)

\* nuevo_pesos = round((pct / 100) * monto_juicio, 2)
nuevo_pesos(pct) == (pct * monto_juicio) \div 100

InitHonorarios ==
    /\ SinTasa /\ SinRipte /\ SinIpc /\ SinPisos
    /\ df_jus \in CalcJus /\ df_jus # <<>>
    /\ SinSesiones
    /\ res = NoRes
    /\ monto_juicio \in HonMontos
    /\ abog_data = AbogInicial
    /\ aux_data = AuxInicial

\* the "Monto ($)" input of the case
CambiarMonto ==
    /\ \E monto \in HonMontos : monto # monto_juicio /\ monto_juicio' = monto
    /\ UNCHANGED <<tablas, proceso, res, abog_data, aux_data>>

\* "% del monto" of lawyer i
AbogPct(i) ==
    /\ \E pct \in HonPcts :
          /\ pct_abog_admitido(pct, i)
          /\ nuevo_pesos(pct) # abog_data[i].pesos
          /\ abog_data' = [abog_data EXCEPT ![i].pesos = nuevo_pesos(pct)]
    /\ UNCHANGED <<tablas, proceso, res, monto_juicio, aux_data>>

\* "$ Monto" of lawyer i
AbogPesos(i) ==
    /\ \E pesos \in HonPesos :
          /\ pesos_abog_admitido(pesos, i)
          /\ pesos # abog_data[i].pesos
          /\ abog_data' = [abog_data EXCEPT ![i].pesos = pesos]
    /\ UNCHANGED <<tablas, proceso, res, monto_juicio, aux_data>>

\* the IVA checkbox of lawyer i
AbogIva(i) ==
    /\ abog_data' = [abog_data EXCEPT ![i].iva = ~abog_data[i].iva]
    /\ UNCHANGED <<tablas, proceso, res, monto_juicio, aux_data>>

\* the delete button of lawyer i
DelAbog(i) ==
    /\ Len(abog_data) > 1
    /\ abog_data' = SinElemento(abog_data, i)
    /\ UNCHANGED <<tablas, proceso, res, monto_juicio, aux_data>>

\* "+ Abogado", disabled when pct_usado >= 25.0
AddAbog ==
    /\ total_usado < limite_25
    /\ Len(abog_data) < MaxAbogados
    /\ abog_data' = Append(abog_data, [pesos |-> 0, iva |-> FALSE])
    /\ UNCHANGED <<tablas, proceso, res, monto_juicio, aux_data>>

\* "% del monto" of auxiliary i
AuxPct(i) ==
    /\ \E pct \in HonPcts :
          /\ pct_aux_admitido(pct, i)
          /\ nuevo_pesos(pct) # aux_data[i]
          /\ aux_data' = [aux_data EXCEPT ![i] = nuevo_pesos(pct)]
    /\ UNCHANGED <<tablas, proceso, res, monto_juicio, abog_data>>

\* "$ Monto" of auxiliary i
AuxPesos(i) ==
    /\ \E pesos \in HonPesos :
          /\ pesos_aux_admitido(pesos, i)
          /\ pesos # aux_data[i]
          /\ aux_data' = [aux_data EXCEPT ![i] = pesos]
    /\ UNCHANGED <<tablas, proceso, res, monto_juicio, abog_data>>

\* the delete button of auxiliary i
DelAux(i) ==
    /\ Len(aux_data) > 1
    /\ aux_data' = SinElemento(aux_data, i)
    /\ UNCHANGED <<tablas, proceso, res, monto_juicio, abog_data>>

\* "+ Auxiliar", disabled when pct_usado >= 25.0
AddAux ==
    /\ total_usado < limite_25
    /\ Len(aux_data) < LimiteAuxiliares
    /\ Len(aux_data) < MaxAuxiliares
    /\ aux_data' = Append(aux_data, 0)
    /\ UNCHANGED <<tablas, proceso, res, monto_juicio, abog_data>>

NextHonorarios ==
    \/ CambiarMonto
    \/ \E i \in 1..Len(abog_data) : AbogPct(i) \/ AbogPesos(i) \/ AbogIva(i) \/ DelAbog(i)
    \/ AddAbog
    \/ \E i \in 1..Len(aux_data) : AuxPct(i) \/ AuxPesos(i) \/ DelAux(i)
    \/ AddAux

SpecHonorarios == InitHonorarios /\ [][NextHonorarios]_vars

-----------------------------------------------------------------------------
(* Properties of the Tasa Activa accumulator *)

\* the intervals [lo, hi] with their rate, as each implementation reads the table
lrt_intervalos(tabla) ==
    [i \in 1..Len(tabla) |->
        [lo |-> tabla[i].desde, hi |-> lrt_hasta(tabla[i]), rate |-> tabla[i].valor]]

df_intervalos(tabla) ==
    LET filas == SelectSeq(tabla, LAMBDA r : ~isna(r.desde) /\ ~isna(r.hasta) /\ ~isna(r.valor))
    IN  [i \in 1..Len(filas) |->
            [lo |-> filas[i].desde, hi |-> filas[i].hasta, rate |-> filas[i].valor]]

ResIntervalos ==
    IF res.op = "calcular_tasa_activa" THEN lrt_intervalos(tasa_data) ELSE df_intervalos(df_tasa)

EsResTasa ==
    res.op \in {"calcular_tasa_activa", "actualizar_tasa", "despidos_actualizar_tasa"}

Cubre(iv, d) == iv.lo <= d /\ d <= iv.hi

\* no day lies in two intervals of the table
SinSolape(ivs) ==
    \A i, j \in 1..Len(ivs) :
        i # j => ~ \E d \in Max(ivs[i].lo, ivs[j].lo)..Min(ivs[i].hi, ivs[j].hi) : TRUE

RECURSIVE SumaTasas(_, _)
\* sum of the rates of the intervals that contain day d, one term per interval
SumaTasas(ivs, d) ==
    IF ivs = <<>> THEN 0
    ELSE (IF Cubre(Head(ivs), d) THEN Head(ivs).rate ELSE 0) + SumaTasas(Tail(ivs), d)

\* the rate of the interval that contains day d, 0 when no interval does
TasaDelDia(ivs, d) ==
    IF \E i \in 1..Len(ivs) : Cubre(ivs[i], d)
    THEN ivs[CHOOSE i \in 1..Len(ivs) : Cubre(ivs[i], d)].rate
    ELSE 0

RECURSIVE SumaDias(_, _, _)
\* sum of f(d) over the days d of [a, b]
SumaDias(f(_), a, b) == IF a > b THEN 0 ELSE f(a) + SumaDias(f, a + 1, b)

\* C1: for start <= end and a table without overlapping intervals, 30 times the
\* accumulated percentage equals the sum over the days of the query range of the
\* rate of the interval containing the day (nothing for a day in no interval).
C1_TasaPorDia ==
    (EsResTasa /\ res.desde <= res.hasta /\ SinSolape(ResIntervalos)) =>
        res.pct30 = SumaDias(LAMBDA d : TasaDelDia(ResIntervalos, d), res.desde, res.hasta)

C1_Witness ==
    /\ EsResTasa /\ res.desde <= res.hasta
    /\ Len(ResIntervalos) = 2 /\ SinSolape(ResIntervalos)
    /\ \E d \in res.desde..res.hasta : Cubre(ResIntervalos[1], d)
    /\ \E d \in res.desde..res.hasta : Cubre(ResIntervalos[2], d)
    /\ \E d \in res.desde..res.hasta : \A i \in 1..2 : ~Cubre(ResIntervalos[i], d)
    /\ res.pct30 > 0

\* C9: whatever the table, each day of the query range contributes the rate of
\* every interval that contains it: a day lying in two intervals counts twice.
C9_DobleConteo ==
    (EsResTasa /\ res.desde <= res.hasta) =>
        res.pct30 = SumaDias(LAMBDA d : SumaTasas(ResIntervalos, d), res.desde, res.hasta)

C9_Witness ==
    /\ EsResTasa /\ res.desde <= res.hasta
    /\ Len(ResIntervalos) = 2
    /\ \E d \in res.desde..res.hasta : Cubre(ResIntervalos[1], d) /\ Cubre(ResIntervalos[2], d)
    /\ res.pct30 > SumaDias(LAMBDA d : TasaDelDia(ResIntervalos, d), res.desde, res.hasta)

-----------------------------------------------------------------------------
(* Properties of the RIPTE index lookup *)

EsResRipte ==
    res.op \in {"get_ripte_coeficiente", "actualizar_ripte", "despidos_actualizar_ripte"}

\* the table the operation of res read
ResRipteTabla == IF res.op = "get_ripte_coeficiente" THEN ripte_data ELSE df_ripte

\* the value of the entry with the latest date <= fecha, and the value of the
\* entry with the earliest date of the table when no entry has such a date
ValorVigente(tabla, fecha) ==
    IF \E i \in 1..Len(tabla) : tabla[i].fecha <= fecha
    THEN tabla[CHOOSE i \in 1..Len(tabla) :
                  /\ tabla[i].fecha <= fecha
                  /\ \A j \in 1..Len(tabla) :
                        tabla[j].fecha <= fecha => tabla[j].fecha <= tabla[i].fecha].indice_ripte
    ELSE tabla[CHOOSE i \in 1..Len(tabla) :
                  \A j \in 1..Len(tabla) : tabla[i].fecha <= tabla[j].fecha].indice_ripte

\* C2: every RIPTE lookup returns the value of the latest entry dated on or
\* before the query date, and the value of the earliest entry when there is none.
C2_RipteVigente ==
    (EsResRipte /\ ResRipteTabla # <<>>) =>
        /\ res.ret.ripte_pmi = ValorVigente(ResRipteTabla, res.desde)
        /\ res.ret.ripte_final = ValorVigente(ResRipteTabla, res.hasta)

\* the part of C2 that the three implementations share: some entry is dated
\* on or before the query date
C2_RipteVigenteConPrevio ==
    (EsResRipte /\ \E i \in 1..Len(ResRipteTabla) : ResRipteTabla[i].fecha <= res.desde) =>
        res.ret.ripte_pmi = ValorVigente(ResRipteTabla, res.desde)

\* C10: a query at the date of an entry returns the value of that entry, and
\* the coefficient of a range with start = end is 1 when that value is positive.
C10_FechaExacta ==
    EsResRipte =>
        /\ \A i \in 1..Len(ResRipteTabla) :
              /\ ResRipteTabla[i].fecha = res.desde
                    => res.ret.ripte_pmi = ResRipteTabla[i].indice_ripte
              /\ ResRipteTabla[i].fecha = res.hasta
                    => res.ret.ripte_final = ResRipteTabla[i].indice_ripte
        /\ (res.desde = res.hasta /\ ResRipteTabla # <<>> /\ res.ret.ripte_pmi > 0)
              => (res.ret.coeficiente # ZeroDivisionError
                  /\ res.ret.coeficiente[1] = res.ret.coeficiente[2])

C10_Witness ==
    /\ EsResRipte /\ Len(ResRipteTabla) = 3
    /\ res.desde = res.hasta
    /\ ResRipteTabla[2].fecha = res.desde
    /\ ResRipteTabla[2].indice_ripte > 0
    /\ ResRipteTabla[1].indice_ripte # ResRipteTabla[2].indice_ripte
    /\ ResRipteTabla[3].indice_ripte # ResRipteTabla[2].indice_ripte
    /\ res.ret.coeficiente = <<ResRipteTabla[2].indice_ripte, ResRipteTabla[2].indice_ripte>>

-----------------------------------------------------------------------------
(* Properties of the pisos and JUS lookups *)

PisoDe(r) == [piso |-> r.piso, resol |-> r.resol]

\* row i of pisos_data is a closed interval containing fecha
CerradoContiene(i, fecha) ==
    /\ ~isna(pisos_data[i].hasta)
    /\ pisos_data[i].desde <= fecha /\ fecha <= pisos_data[i].hasta

\* row i of pisos_data is an open-ended interval
Abierto(i) == isna(pisos_data[i].hasta)

\* row i of pisos_data is an open-ended interval that started on or before fecha
AbiertoVigente(i, fecha) == Abierto(i) /\ pisos_data[i].desde <= fecha

FilasPisos == 1..Len(pisos_data)

\* C6 as stated: the interval containing the date, else the open-ended interval
\* with the latest desde among all the rows without hasta.
C6_PisoAbiertoMasReciente ==
    (res.op = "get_piso_minimo" /\ pisos_data # <<>>) =>
        IF \E i \in FilasPisos : CerradoContiene(i, res.fecha)
        THEN \E i \in FilasPisos : CerradoContiene(i, res.fecha) /\ res.ret = PisoDe(pisos_data[i])
        ELSE (\E i \in FilasPisos : Abierto(i)) =>
                \E i \in FilasPisos :
                    /\ Abierto(i)
                    /\ \A j \in FilasPisos : Abierto(j) => pisos_data[j].desde <= pisos_data[i].desde
                    /\ res.ret = PisoDe(pisos_data[i])

\* C6 as amended: the first closed interval (in ascending order of desde) that
\* contains the date; else the last open-ended interval (latest desde) among
\* those that started on or before the date; else no floor, (None, "").
C6_PisoVigente ==
    res.op = "get_piso_minimo" =>
        IF \E i \in FilasPisos : CerradoContiene(i, res.fecha)
        THEN \E i \in FilasPisos :
                /\ CerradoContiene(i, res.fecha)
                /\ \A j \in 1..(i - 1) : ~CerradoContiene(j, res.fecha)
                /\ res.ret = PisoDe(pisos_data[i])
        ELSE IF \E i \in FilasPisos : AbiertoVigente(i, res.fecha)
        THEN \E i \in FilasPisos :
                /\ AbiertoVigente(i, res.fecha)
                /\ \A j \in (i + 1)..Len(pisos_data) : ~AbiertoVigente(j, res.fecha)
                /\ \A j \in FilasPisos :
                      AbiertoVigente(j, res.fecha) => pisos_data[j].desde <= pisos_data[i].desde
                /\ res.ret = PisoDe(pisos_data[i])
        ELSE res.ret = SinPiso

C6_Witness ==
    /\ res.op = "get_piso_minimo" /\ Len(pisos_data) = 2
    /\ ~ \E i \in FilasPisos : CerradoContiene(i, res.fecha)
    /\ Abierto(1) /\ Abierto(2)
    /\ AbiertoVigente(1, res.fecha) /\ ~AbiertoVigente(2, res.fecha)
    /\ PisoDe(pisos_data[1]) # PisoDe(pisos_data[2])
    /\ res.ret = PisoDe(pisos_data[1])

\* a row of the JUS table covers fecha
JusCubre(r, fecha) == r.desde <= fecha /\ (isna(r.hasta) \/ r.hasta >= fecha)

\* C7: a date that no record of a non-empty table covers gets the value of a
\* boundary record (the earliest before the first record, the latest after the
\* last one, one of the two in a gap), never an absent value.
C7_SiempreUnValor ==
    /\ (/\ res.op = "get_piso_minimo" /\ pisos_data # <<>>
        /\ ~ \E i \in FilasPisos : CerradoContiene(i, res.fecha) \/ AbiertoVigente(i, res.fecha))
          => /\ res.ret # SinPiso
             /\ res.ret \in {PisoDe(pisos_data[1]), PisoDe(pisos_data[Len(pisos_data)])}
             /\ res.fecha < pisos_data[1].desde => res.ret = PisoDe(pisos_data[1])
    /\ (/\ res.op = "convertir_a_jus" /\ df_jus # <<>>
        /\ ~ \E i \in 1..Len(df_jus) : JusCubre(df_jus[i], res.fecha))
          => /\ res.ret.valor_jus # None
             /\ res.ret.valor_jus \in {df_jus[1].valor, df_jus[Len(df_jus)].valor}
             /\ res.fecha < df_jus[Len(df_jus)].desde => res.ret.valor_jus = df_jus[Len(df_jus)].valor
             /\ res.fecha > df_jus[1].desde => res.ret.valor_jus = df_jus[1].valor

-----------------------------------------------------------------------------
(* Properties of the inflation accumulator *)

EsResIpc == res.op \in {"calcular_inflacion", "calcular_ipc_acumulado", "actualizar_ipc"}

ResIpcTabla == IF res.op = "calcular_inflacion" THEN ipc_data ELSE df_ipc

RECURSIVE ProductoNum(_, _)
\* product of (100 + variacion) over the rows of index in I, and 100 ^ |I|
ProductoNum(tabla, I) ==
    IF I = {} THEN 1
    ELSE LET i == CHOOSE k \in I : TRUE
         IN  (100 + tabla[i].variacion) * ProductoNum(tabla, I \ {i})

RECURSIVE Potencia100(_)
Potencia100(n) == IF n = 0 THEN 1 ELSE 100 * Potencia100(n - 1)

\* (P - 1) * 100 for P the product of (1 + variacion / 100) over the rows of
\* index in I that have a variacion
Acumulado(tabla, I) ==
    LET J == {i \in I : ~isna(tabla[i].variacion)}
        n == ProductoNum(tabla, J)
        d == Potencia100(Cardinality(J))
    IN  Frac((n - d) * 100, d)

\* C5 as stated: the periods selected are those whose date, normalized to day 1
\* of its month, lies in [start, end].
C5_PeriodosEnRango ==
    (EsResIpc /\ res.desde <= res.hasta) =>
        res.ret.seleccion =
            SelectSeq(ResIpcTabla, LAMBDA r :
                ~isna(r.periodo) /\ res.desde <= replace_day1(r.periodo)
                                 /\ replace_day1(r.periodo) <= res.hasta)

\* C5 as amended: the periods selected are those dated from day 1 of the month
\* of start to day 1 of the month of end, and the result is (P - 1) * 100 for P
\* the product of (1 + change / 100) over them.
C5_PeriodosDelMes ==
    EsResIpc =>
        LET I == {i \in 1..Len(ResIpcTabla) :
                    /\ ~isna(ResIpcTabla[i].periodo)
                    /\ MonthStart(month_of(res.desde)) <= ResIpcTabla[i].periodo
                    /\ ResIpcTabla[i].periodo <= MonthStart(month_of(res.hasta))}
        IN  /\ Len(res.ret.seleccion) = Cardinality(I)
            /\ \A i \in I : \E k \in 1..Len(res.ret.seleccion) : res.ret.seleccion[k] = ResIpcTabla[i]
            /\ res.ret.inflacion = Acumulado(ResIpcTabla, I)

C5_Witness ==
    /\ EsResIpc /\ Len(ResIpcTabla) = 2
    /\ res.desde = 15 /\ res.hasta = 45
    /\ ResIpcTabla[1].periodo = 32 /\ ResIpcTabla[2].periodo = 1
    /\ ResIpcTabla[1].variacion = 25 /\ ResIpcTabla[2].variacion = 100
    /\ Len(res.ret.seleccion) = 2
    /\ res.ret.inflacion = <<150, 1>>

-----------------------------------------------------------------------------
(* Properties of the rounding *)

\* C4: a value in thousandths is rounded to hundredths, its magnitude going up
\* when the third decimal is 5 or more and staying when it is below 5; a value
\* with at most 2 decimals is returned with the same value; the result always
\* has exactly 2 decimals.
C4_RedondeoMitadArriba ==
    res.op = "redondear" =>
        /\ res.ret.exp = -2
        /\ res.valor.exp = -3 =>
              LET t == Abs(res.valor.coef)
                  c == IF t % 10 >= 5 THEN (t \div 10) + 1 ELSE t \div 10
              IN  res.ret.coef = IF res.valor.coef < 0 THEN -c ELSE c
        /\ res.valor.exp = -2 => res.ret = res.valor
        /\ res.valor.exp \in {0, -1} =>
              res.ret.coef = res.valor.coef * (IF res.valor.exp = 0 THEN 100 ELSE 10)

C4_Witness ==
    /\ res.op = "redondear"
    /\ res.valor = [coef |-> 10125, exp |-> -3]
    /\ res.ret = [coef |-> 1013, exp |-> -2]

\* C3: every amount reported as a line item is a whole number of cents.
C3_PartidasEnCentavos ==
    EsResTasa => res.total[2] = 1

\* the rows of the table dated from day 1 of the month of start to day 1 of the
\* month of end
IpcDelMes == {i \in 1..Len(ResIpcTabla) :
                /\ ~isna(ResIpcTabla[i].periodo)
                /\ MonthStart(month_of(res.desde)) <= ResIpcTabla[i].periodo
                /\ ResIpcTabla[i].periodo <= MonthStart(month_of(res.hasta))}

\* the rows of the table dated within [start, end]
IpcEnRango == {i \in 1..Len(ResIpcTabla) :
                /\ ~isna(ResIpcTabla[i].periodo)
                /\ res.desde <= ResIpcTabla[i].periodo
                /\ ResIpcTabla[i].periodo <= res.hasta}

\* the result of an accumulation over nothing: 0 %, and in actualizar_ipc the
\* amount as given and no interest
IpcIdentidad ==
    /\ res.ret.inflacion = Cero
    /\ res.op = "actualizar_ipc" =>
          /\ res.ret.total = <<res.monto, 1>>
          /\ res.ret.interes_puro = Cero

\* C11 as stated: when no period of the table is dated within [start, end], the
\* accumulated change is 0 % and actualizar_ipc returns the amount unchanged.
C11_SinPeriodosEnRango ==
    (EsResIpc /\ res.desde <= res.hasta /\ IpcEnRango = {}) => IpcIdentidad

\* C11 as amended: when no period of the table is dated from day 1 of the month
\* of start to day 1 of the month of end (or the table is empty), the
\* accumulated change is 0 % and actualizar_ipc returns the amount unchanged,
\* without pure interest.
C11_SinPeriodosDelMes ==
    (EsResIpc /\ IpcDelMes = {}) => IpcIdentidad

C11_Witness ==
    /\ res.op = "actualizar_ipc"
    /\ Len(df_ipc) = 1 /\ df_ipc[1].periodo = 32 /\ df_ipc[1].variacion = 25
    /\ res.desde = 1 /\ res.hasta = 15 /\ res.tasa_pura = 6
    /\ res.ret.total = <<res.monto, 1>>
    /\ res.ret.inflacion = Cero

-----------------------------------------------------------------------------
(* Properties of the sessions *)

\* C13: no interleaving of the actions of the sessions changes the result of a
\* calculation of a session or makes it fail: every script run of a session
\* that ends has run the calculation of its application.
C13_SesionesAisladas ==
    \A s \in Sesiones : sesion[s].pc = "fin" => sesion[s].resultado = "calculado"

\* the working directory is the base directory once a script run has started
C13_DirectorioBase ==
    \A s \in Sesiones : sesion[s].pc \notin {"menu", "inicio"} => cwd = BASE_DIR

-----------------------------------------------------------------------------
(* Properties of the dismissal calculator *)

EsDespido == res.op = "calcular_despido"

\* the complete years of service from fecha_ingreso to fecha_despido
AniosCompletos(ingreso, despido) ==
    (despido.year - ingreso.year)
    - (IF despido.month < ingreso.month
          \/ (despido.month = ingreso.month /\ despido.day < ingreso.day)
       THEN 1 ELSE 0)

\* the complete months of the fraction of a year after the last anniversary
MesesDeFraccion(ingreso, despido) ==
    (despido.month - ingreso.month - (IF despido.day < ingreso.day THEN 1 ELSE 0) + 12) % 12

\* the fraction of a year after the last anniversary is more than 3 months:
\* 4 complete months or more, or 3 complete months and at least one day
FraccionMayorA3Meses(ingreso, despido) ==
    \/ MesesDeFraccion(ingreso, despido) >= 4
    \/ MesesDeFraccion(ingreso, despido) = 3 /\ despido.day # ingreso.day

\* C14: the years of calcular_antiguedad are the complete years of service plus
\* one when the remaining fraction is more than 3 months (3 months and a day
\* included), and the Art. 245 amount is salario times those years.
C14_FraccionMayorA3Meses ==
    EsDespido =>
        LET ingreso == res.fecha_ingreso
            despido == Fecha(res.fecha_despido)
        IN  /\ res.anios = AniosCompletos(ingreso, despido)
                           + (IF FraccionMayorA3Meses(ingreso, despido) THEN 1 ELSE 0)
            /\ res.antiguedad_245 = res.salario * res.anios

\* the days of vacation the text gives for a seniority; 10 years belongs to two
\* of its ranges
DiasSegunTexto(anios) ==
    {d \in {14, 21, 28, 35} :
        \/ d = 14 /\ anios < 5
        \/ d = 21 /\ 5 <= anios /\ anios <= 10
        \/ d = 28 /\ 10 <= anios /\ anios <= 20
        \/ d = 35 /\ anios > 20}

\* C20: calcular_dias_vacaciones gives 14 days below 5 years, 21 from 5 to 10,
\* 28 from 10 to 20 and 35 above 20, and the vacation amount is salario / 25
\* times those days.
C20_DiasDeVacaciones ==
    EsDespido =>
        /\ res.dias_vacaciones \in DiasSegunTexto(res.anios)
        /\ res.vacaciones = quantize_cociente(<<res.salario * res.dias_vacaciones, 25>>)

-----------------------------------------------------------------------------
(* Properties of the LRT calculator *)

EsLrt == res.op = "calcular_indemnizacion"

\* the floor in force at fecha in pisos_data (see C6), None when there is none
PisoEnVigor(fecha) ==
    IF \E i \in FilasPisos : CerradoContiene(i, fecha)
    THEN pisos_data[CHOOSE i \in FilasPisos :
                        /\ CerradoContiene(i, fecha)
                        /\ \A j \in 1..(i - 1) : ~CerradoContiene(j, fecha)].piso
    ELSE IF \E i \in FilasPisos : AbiertoVigente(i, fecha)
    THEN pisos_data[CHOOSE i \in FilasPisos :
                        /\ AbiertoVigente(i, fecha)
                        /\ \A j \in (i + 1)..Len(pisos_data) : ~AbiertoVigente(j, fecha)].piso
    ELSE None

\* IBM * 53 * (65 / edad) * (incapacidad / 100), in hundredths of a cent over
\* edad: twice the amount in cents is CapitalDoble[1] / CapitalDoble[2]
CapitalDoble == <<2 * res.ibm * 53 * 65 * res.incapacidad_pct, res.edad * 100>>

\* the formula capital rounded half-up to cents
CapitalFormula == (CapitalDoble[1] + CapitalDoble[2]) \div (2 * CapitalDoble[2])

\* the capital applied and the flag, as C15 states them
CapitalSegunPiso ==
    LET piso == PisoEnVigor(res.pmi_date)
        proporcional == <<piso * res.incapacidad_pct, 100>>
        \* CapitalFormula < piso * incapacidad / 100
        bajo_piso == CapitalFormula * 100 < piso * res.incapacidad_pct
    IN  /\ res.capital_formula = CapitalFormula
        /\ piso = None =>
              /\ res.capital_aplicado = <<CapitalFormula, 1>>
              /\ ~res.piso_aplicado
        /\ piso # None =>
              /\ res.piso_aplicado = bajo_piso
              /\ res.capital_aplicado =
                    IF bajo_piso THEN Frac(proporcional[1], proporcional[2])
                    ELSE <<CapitalFormula, 1>>

\* C15 as stated: the capital applied is the larger of the rounded formula
\* capital and the proportional floor in force, piso_aplicado tells that the
\* formula capital is strictly below it, and capital_base is the capital applied
\* plus 20 % of it with the option on, the capital applied otherwise.
C15_CapitalBaseExacto ==
    EsLrt =>
        /\ CapitalSegunPiso
        /\ <<res.capital_base, 1>> =
              IF res.incluir_20_pct
              THEN Frac(res.capital_aplicado[1] * 120, res.capital_aplicado[2] * 100)
              ELSE res.capital_aplicado

\* half-up rounding to whole cents of the non-negative fraction f
Centavos(f) == (f[1] \div f[2]) + (IF 2 * (f[1] % f[2]) >= f[2] THEN 1 ELSE 0)

\* C15 as amended: the same capital applied and flag; capital_base is the
\* capital applied plus its 20 % rounded to cents (with the option on), the sum
\* rounded to cents.
C15_CapitalBaseRedondeado ==
    EsLrt =>
        /\ CapitalSegunPiso
        /\ res.adicional_20_pct =
              IF res.incluir_20_pct
              THEN Centavos(<<res.capital_aplicado[1] * 20, res.capital_aplicado[2] * 100>>)
              ELSE 0
        /\ res.capital_base =
              Centavos(<<res.capital_aplicado[1] + res.adicional_20_pct * res.capital_aplicado[2],
                         res.capital_aplicado[2]>>)

C15_Witness ==
    /\ EsLrt
    /\ res.ibm = 0 /\ res.incapacidad_pct = 50 /\ res.pmi_date = 15 /\ res.incluir_20_pct
    /\ Len(pisos_data) = 1 /\ pisos_data[1].piso = 400001
    /\ res.piso_aplicado
    /\ res.capital_aplicado = <<400001, 2>>
    /\ res.adicional_20_pct = 40000
    /\ res.capital_base = 240001

\* C16: the pure interest is the RIPTE-updated capital * 0.03 * (days / 365.25)
\* for the days from the PMI date to the final date, in cents, and
\* total_ripte_3 is the RIPTE-updated capital plus that interest.
C16_InteresAnioJuliano ==
    EsLrt =>
        /\ res.interes_puro_3_pct =
              Centavos(<<res.ripte_actualizado * 12 * (res.final_date - res.pmi_date), 146100>>)
        /\ res.total_ripte_3 = res.ripte_actualizado + res.interes_puro_3_pct

\* the interest the calculator charges: over a year of 365 days
C16_InteresAnioCivil ==
    EsLrt =>
        /\ res.interes_puro_3_pct =
              Centavos(<<res.ripte_actualizado * 3 * (res.final_date - res.pmi_date), 36500>>)
        /\ res.total_ripte_3 = res.ripte_actualizado + res.interes_puro_3_pct

-----------------------------------------------------------------------------
(* Properties of the choice of the most favourable update *)

\* C18: the subtotal of the LRT liquidation is the larger of total_ripte_3 and
\* total_tasa_activa, RIPTE + 3 % when they are equal, and the results tab, the
\* PDF, the liquidation and the dismissal calculator all mark RIPTE + 3 % when
\* its total is greater or equal, Tasa Activa otherwise, and never both.
C18_MasFavorable ==
    /\ EsLrt =>
          LET ripte == <<res.total_ripte_3, 1>>
              tasa  == res.total_tasa_activa
              gana_ripte == MayorIgual(ripte, tasa)
          IN  /\ res.liquidacion.total_actualizacion = IF gana_ripte THEN ripte ELSE tasa
              /\ MayorIgual(res.liquidacion.total_actualizacion, ripte)
              /\ MayorIgual(res.liquidacion.total_actualizacion, tasa)
              /\ (res.liquidacion.metodo_usado = "tasa de variacion RIPTE") = gana_ripte
              /\ (res.liquidacion.metodo_usado = "Tasa Activa BNA") = ~gana_ripte
              /\ res.vista_resultados.ripte = gana_ripte
              /\ res.vista_resultados.tasa = ~gana_ripte
              /\ (res.vista_pdf = "RIPTE + 3%") = gana_ripte
              /\ (res.vista_pdf = "Tasa Activa BNA") = ~gana_ripte
    /\ EsDespido =>
          LET gana_ripte == MayorIgual(res.datos_actualizacion.ripte, res.datos_actualizacion.tasa)
          IN  /\ res.vista.pagina_ripte = gana_ripte
              /\ res.vista.pagina_tasa = ~gana_ripte
              /\ res.vista.pdf_ripte = gana_ripte
              /\ res.vista.pdf_tasa = ~gana_ripte

\* the two totals are equal and RIPTE + 3 % is the method used
C18_Witness ==
    /\ EsLrt
    /\ res.capital_base > 0
    /\ res.total_tasa_activa = <<res.total_ripte_3, 1>>
    /\ res.liquidacion.metodo_usado = "tasa de variacion RIPTE"
    /\ res.vista_resultados = [ripte |-> TRUE, tasa |-> FALSE]
    /\ res.vista_pdf = "RIPTE + 3%"

-----------------------------------------------------------------------------
(* Properties of the Tasa Activa total *)

\* the table the operation of res read
ResTasaTabla == IF res.op = "calcular_tasa_activa" THEN tasa_data ELSE df_tasa

\* days of [a, b] that lie in the interval iv
DiasEnIntervalo(iv, a, b) == Cardinality({d \in a..b : Cubre(iv, d)})

RECURSIVE SumaAportes(_, _, _)
\* 30 times the sum of the prorated contributions rate * days / 30, one term per
\* interval, each computed on the query range alone
SumaAportes(ivs, a, b) ==
    IF ivs = <<>> THEN 0
    ELSE Head(ivs).rate * DiasEnIntervalo(Head(ivs), a, b) + SumaAportes(Tail(ivs), a, b)

\* C17: the updated total is base * (1 + P / 100) for P the plain sum of the
\* prorated contributions of the intervals, none applied on top of another; with
\* an empty rate table P = 0 and the total is the base.
C17_SumaSinCapitalizacion ==
    EsResTasa =>
        /\ res.pct30 = SumaAportes(ResIntervalos, res.desde, res.hasta)
        /\ res.total = Frac(res.monto * 3000 + res.monto * res.pct30, 3000)
        /\ ResTasaTabla = <<>> => (res.pct30 = 0 /\ res.total = <<res.monto, 1>>)

\* two intervals contribute to the total
C17_Witness ==
    /\ EsResTasa /\ Len(ResIntervalos) = 2
    /\ DiasEnIntervalo(ResIntervalos[1], res.desde, res.hasta) > 0
    /\ DiasEnIntervalo(ResIntervalos[2], res.desde, res.hasta) > 0
    /\ ResIntervalos[1].rate # ResIntervalos[2].rate
    /\ MayorIgual(res.total, <<res.monto + 1, 1>>)

-----------------------------------------------------------------------------
(* Properties of the tables as read-only data *)

\* the fields of res that are arguments of the operation
CamposDeEntrada ==
    {"op", "desde", "hasta", "monto", "tasa_pura", "fecha", "mes", "mes_pmi", "salario",
     "pmi_date", "final_date", "ibm", "edad", "incapacidad_pct", "incluir_20_pct"}

\* the operation of r and its arguments
Entradas(r) == [f \in (DOMAIN r) \cap CamposDeEntrada |-> r[f]]

-----------------------------------------------------------------------------
(* Properties of the IBM *)

EsIbm == res.op = "calcular_ibm"

\* the 12 calendar months before the PMI month, and those with a salary
MesesPrevios == (res.mes_pmi - 12)..(res.mes_pmi - 1)
SalarioDelMes(m) == res.salarios[m - res.mes_pmi + 13]
MesesConSalario == {m \in MesesPrevios : SalarioDelMes(m) > 0}

\* the RIPTE index of month m: None when the table has no row for it
IndiceDelMes(m) ==
    IF \E i \in 1..Len(df_ripte) : month_of(df_ripte[i].fecha) = m
    THEN df_ripte[CHOOSE i \in 1..Len(df_ripte) : month_of(df_ripte[i].fecha) = m].indice_ripte
    ELSE None

\* the variation of the formula is defined for month m
ConVariacion(m) ==
    /\ IndiceDelMes(m) # None /\ IndiceDelMes(m) # 0
    /\ IndiceDelMes(res.mes_pmi) # None

\* salario * (1 + (RIPTE PMI - RIPTE month) / RIPTE month) = salario * RIPTE PMI / RIPTE month
SalarioSegunFormula(m) == <<SalarioDelMes(m) * IndiceDelMes(res.mes_pmi), IndiceDelMes(m)>>

RECURSIVE SumaDeMeses(_, _)
\* the sum of term[m] over the months of S
SumaDeMeses(S, term) ==
    IF S = {} THEN Cero
    ELSE LET m == CHOOSE x \in S : TRUE
         IN  SumarFrac(term[m], SumaDeMeses(S \ {m}, term))

\* C19 as stated: the IBM is the half-up rounded average, over the months with
\* a salary among the 12 before the PMI month, of the salaries updated by the
\* RIPTE formula, and 0 when no month has a salary.
C19_PromedioActualizado ==
    EsIbm =>
        IF MesesConSalario = {} THEN res.ibm = 0
        ELSE /\ \A m \in MesesConSalario : ConVariacion(m)
             /\ res.ibm = Centavos(LET s == SumaDeMeses(MesesConSalario, [m \in MesesConSalario |-> SalarioSegunFormula(m)])
                                   IN  <<s[1], s[2] * Cardinality(MesesConSalario)>>)

\* the updated salary of month m: the formula where its variation is defined,
\* the salary itself otherwise
SalarioActualizadoDelMes(m) ==
    IF ConVariacion(m) THEN SalarioSegunFormula(m) ELSE <<SalarioDelMes(m), 1>>

\* C19 with the months without variation: a salary whose month, or the PMI
\* month, has no RIPTE index, or whose month has index 0, enters the average as
\* entered.
C19_PromedioConSalariosSinIndice ==
    EsIbm =>
        IF MesesConSalario = {} THEN res.ibm = 0
        ELSE res.ibm = Centavos(LET s == SumaDeMeses(MesesConSalario, [m \in MesesConSalario |-> SalarioActualizadoDelMes(m)])
                                IN  <<s[1], s[2] * Cardinality(MesesConSalario)>>)

\* two salaries updated by different variations, the other months without
\* salary, and an average that is not a whole number of cents
C19_Witness ==
    /\ EsIbm
    /\ Cardinality(MesesConSalario) = 2
    /\ \A m \in MesesConSalario : ConVariacion(m)
    /\ \E m, n \in MesesConSalario : IndiceDelMes(m) # IndiceDelMes(n)
    /\ LET s == SumaDeMeses(MesesConSalario, [m \in MesesConSalario |-> SalarioSegunFormula(m)])
       IN  s[1] % (2 * s[2]) # 0
    /\ res.ibm > 0

-----------------------------------------------------------------------------
(* Properties of the days worked and the integration of the dismissal month *)

\* the days of the calendar month of day d, and those up to d
DiasDelMesDe(d) == Cardinality({x \in 1..366 : month_of(x) = month_of(d)})
DiaDelMesDe(d)  == Cardinality({x \in 1..d : month_of(x) = month_of(d)})
UltimoDiaDelMes(d) == d = 366 \/ month_of(d + 1) # month_of(d)

\* C21 as stated: integracion_mes and sac_integracion are 0 exactly when the
\* dismissal date is the last day of its month; otherwise the integration is
\* (salario / days of the month) * (days of the month - day of dismissal), and
\* the days worked are (salario / days of the month) * day of dismissal.
C21_IntegracionExacta ==
    EsDespido =>
        LET d   == res.fecha_despido
            dm  == DiasDelMesDe(d)
            dia == DiaDelMesDe(d)
        IN  /\ (res.integracion_mes = 0 /\ res.sac_integracion = 0) <=> UltimoDiaDelMes(d)
            /\ ~UltimoDiaDelMes(d) =>
                  <<res.integracion_mes, 1>> = Frac(res.salario * (dm - dia), dm)
            /\ <<res.dias_trabajados, 1>> = Frac(res.salario * dia, dm)

\* C21 with the rounding of the items: on the last day of the month both
\* amounts are 0; otherwise the integration is the amount of the formula and
\* its SAC the twelfth of that amount, each rounded half-up to cents; the days
\* worked are the amount of their formula rounded half-up to cents.
C21_IntegracionRedondeada ==
    EsDespido =>
        LET d   == res.fecha_despido
            dm  == DiasDelMesDe(d)
            dia == DiaDelMesDe(d)
        IN  /\ res.dias_trabajados = Centavos(<<res.salario * dia, dm>>)
            /\ IF UltimoDiaDelMes(d)
               THEN res.integracion_mes = 0 /\ res.sac_integracion = 0
               ELSE /\ res.integracion_mes = Centavos(<<res.salario * (dm - dia), dm>>)
                    /\ res.sac_integracion = Centavos(<<res.salario * (dm - dia), dm * 12>>)

\* a dismissal in the middle of a month of 31 days, with an integration that
\* is not a whole number of cents
C21_Witness ==
    /\ EsDespido
    /\ ~UltimoDiaDelMes(res.fecha_despido)
    /\ DiasDelMesDe(res.fecha_despido) = 31
    /\ (res.salario * (31 - DiaDelMesDe(res.fecha_despido))) % 31 # 0
    /\ res.integracion_mes > 0 /\ res.sac_integracion > 0

-----------------------------------------------------------------------------
(* Properties of the regulation of fees *)

\* C22: after any sequence of edits of the regulation tab the total allocated
\* (the lawyers' fees, 10 % Caja on each, 21 % IVA on each lawyer with the
\* flag, and the auxiliaries' fees) is at most 25 % of the case amount.
C22_TopeDelVeinticinco ==
    SumaSeq([j \in 1..Len(abog_data) |->
                abog_data[j].pesos * 100 + abog_data[j].pesos * 10
                + (IF abog_data[j].iva THEN abog_data[j].pesos * 21 ELSE 0)])
    + SumaSeq([j \in 1..Len(aux_data) |-> aux_data[j] * 100])
       <= monto_juicio * 25

====
